---- MODULE Spec2Model ----
(***************************************************************************)
(* ThunderScope host-side acquisition core: the edge trigger, the ring     *)
(* buffer, the DMA streamer, the device bring-up/configuration sequence    *)
(* and the sampler's waveform bucket brigade.                              *)
(***************************************************************************)
EXTENDS Integers, Sequences, FiniteSets, TLC

VARIABLES
    trig,       \* Trigger { state, level, below, above }
    call,       \* the last Trigger::find call: its input, filter and result
    ring,       \* RingBuffer { buffer: RingSlice { len, bytes }, cursor }
    ringLast,   \* per ring position, the byte last written through append
    ringRead,   \* the last RingBuffer::read call: cursor, count and result
    dev,        \* the data mover: pages written, circular memory, Status flags
    strm,       \* Streamer { cursor } and the position of a read call in progress
    strmOut,    \* the bytes returned by the reads so far, and where they started
    smp,        \* the sampler thread: its place in the loop and its locals
    chan,       \* the waveform channels and the parameters channel
    rend,       \* the renderer (consumer) thread
    wfm,        \* the waveforms of the pool: their capture slots
    smpHist,    \* what happened to the pool so far
    ctl,        \* the device's Control register: the set of its set bits
    devLog,     \* the register writes of the last device call, in order
    devCall,    \* the last device call: its arguments and result
    feed,       \* a sample stream handed to one Trigger over successive calls
    calc,       \* one call of a constructor or operator: its arguments and result
    fifo        \* the SPI/I2C transactions of a Device and their register accesses

trigVars == <<trig, call>>

ringVars == <<ring, ringLast, ringRead>>

strmVars == <<dev, strm, strmOut>>

smpVars == <<smp, chan, rend, wfm, smpHist>>

devVars == <<ctl, devLog, devCall>>

vars == <<trigVars, ringVars, strmVars, smpVars, devVars, feed, calc, fifo>>

\* what the actions of one component leave alone
trigOthers == <<ringVars, strmVars, smpVars, devVars, feed, calc, fifo>>

ringOthers == <<trigVars, strmVars, smpVars, devVars, feed, calc, fifo>>

strmOthers == <<trigVars, ringVars, smpVars, devVars, feed, calc, fifo>>

smpOthers == <<trigVars, ringVars, strmVars, devVars, feed, calc, fifo>>

devOthers == <<trigVars, ringVars, strmVars, smpVars, feed, calc, fifo>>

(***************************************************************************)
(* Generic helpers                                                         *)
(***************************************************************************)
Min2(a, b) == IF a <= b THEN a ELSE b

Max2(a, b) == IF a >= b THEN a ELSE b

SetMin(S) == CHOOSE x \in S : \A y \in S : x <= y

I8 == -128..127

(***************************************************************************)
(* trigger.rs                                                              *)
(***************************************************************************)
GROUP == 16

MASK_BITS == 16

EdgeFilters == {"Rising", "Falling", "Both"}

\* the subtraction wrapping around in i8 instead of saturating
WrappingSubUnsigned(x, h) == ((x - h + 128) % 256) - 128

\* i8::saturating_sub_unsigned / saturating_add_unsigned
SaturatingSubUnsigned(x, h) == Max2(x - h, -128)

SaturatingAddUnsigned(x, h) == Min2(x + h, 127)

\* Trigger::new without the clamping of the thresholds to [-127, 126]
TriggerNewUnclamped(level, hysteresis) ==
    [ state |-> "Fresh",
      level |-> level,
      below |-> SaturatingSubUnsigned(level, hysteresis),
      above |-> SaturatingAddUnsigned(level, hysteresis) ]

\* Trigger::new
TriggerNew(level, hysteresis) ==
    [ state |-> "Fresh",
      level |-> level,
      below |-> Max2(SaturatingSubUnsigned(level, hysteresis), -127),
      above |-> Min2(SaturatingAddUnsigned(level, hysteresis), 126) ]

\* the closure handed to scan_for: cmp_gt(above) in state Below, cmp_lt(below)
\* in state Above
PredicateNonStrict(t, sample) ==
    IF t.state = "Below" THEN sample >= t.above ELSE sample <= t.below

Predicate(t, sample) ==
    IF t.state = "Below" THEN sample > t.above ELSE sample < t.below

\* (mask.move_mask() as u16).trailing_zeros(), the mask given as the set of
\* lanes (0-based) whose compare is true
MoveMaskTrailingZerosI32(lanes) ==
    IF lanes = {} THEN 2 * MASK_BITS ELSE SetMin(lanes)

MoveMaskTrailingZeros(lanes) ==
    IF lanes = {} THEN MASK_BITS ELSE SetMin(lanes)

\* scan_for: the loop over samples.array_chunks::<16>(), from group g on;
\* `base` is the index of the slice's first sample in data (0-based)
RECURSIVE ScanGroups(_, _, _, _, _)
ScanGroups(t, data, base, g, offset) ==
    IF (g + 1) * GROUP > Len(data) - base
    THEN [found |-> FALSE, offset |-> offset]
    ELSE LET lanes == { i \in 0..(GROUP - 1) :
                            Predicate(t, data[base + g * GROUP + i + 1]) }
             off   == offset + MoveMaskTrailingZeros(lanes)
         IN  IF lanes # {}
             THEN [found |-> TRUE, offset |-> off]
             ELSE ScanGroups(t, data, base, g + 1, off)

\* scan_for: the slice is advanced by offset.min(samples.len())
ScanForToEnd(t, data, base) ==
    LET r == ScanGroups(t, data, base, 0, 0)
    IN  [found |-> r.found,
         base |-> IF r.found THEN base + r.offset ELSE Len(data)]

ScanFor(t, data, base) ==
    LET r == ScanGroups(t, data, base, 0, 0)
    IN  [found |-> r.found, base |-> base + Min2(r.offset, Len(data) - base)]

\* scan_impl: the match on (self.state, filter) after a crossing was found
\* and the state flipped
ReportedEdgeAlwaysRising(state, filter) == "Rising"

ReportedEdgeUnfiltered(state, filter) ==
    IF state = "Above" THEN "Rising" ELSE "Falling"

ReportedEdge(state, filter) ==
    IF state = "Above" /\ filter \in {"Both", "Rising"} THEN "Rising"
    ELSE IF state = "Below" /\ filter \in {"Both", "Falling"} THEN "Falling"
    ELSE "None"

\* scan_impl: the loop that follows the handling of a Fresh trigger
RECURSIVE ScanLoop(_, _, _, _)
ScanLoop(t, data, base, filter) ==
    LET r == ScanFor(t, data, base)
    IN  IF r.found
        THEN LET flipped == [t EXCEPT !.state =
                                IF t.state = "Below" THEN "Above" ELSE "Below"]
                 edge    == ReportedEdge(flipped.state, filter)
             IN  IF edge # "None"
                 THEN [trig |-> flipped, base |-> r.base, edge |-> edge]
                 ELSE ScanLoop(flipped, data, r.base, filter)
        ELSE [trig |-> t, base |-> r.base, edge |-> "None"]

\* the state a Fresh trigger takes from the first sample
FreshStateThreshold(t, first_sample) ==
    IF first_sample < t.above THEN "Below" ELSE "Above"

FreshState(t, first_sample) ==
    IF first_sample < t.level THEN "Below" ELSE "Above"

\* scan_impl; the result's base is the number of samples the slice was
\* advanced by
ScanImpl(t, data, filter) ==
    IF t.state = "Fresh"
    THEN IF Len(data) = 0
         THEN [trig |-> t, base |-> 0, edge |-> "None"]
         ELSE ScanLoop([t EXCEPT !.state = FreshState(t, data[1])],
                       data, 1, filter)
    ELSE ScanLoop(t, data, 0, filter)

\* Trigger::scan dispatches to scan_generic, scan_avx or scan_avx2, which are
\* three instances of scan_impl
Scan(t, data, filter) == ScanImpl(t, data, filter)

\* Trigger::find: (len_before - len_after, edge_opt)
FindDroppingTail(t, data, filter) ==
    LET r == Scan(t, data, filter)
    IN  [trig |-> r.trig,
         consumed |-> IF r.edge = "None" THEN Len(data) ELSE r.base,
         edge |-> r.edge]

Find(t, data, filter) ==
    LET r == Scan(t, data, filter)
    IN  [trig |-> r.trig, consumed |-> Len(data) - (Len(data) - r.base),
         edge |-> r.edge]

(***************************************************************************)
(* Inputs of the trigger: Trigger::new arguments and sample slices made of *)
(* three constant runs                                                     *)
(***************************************************************************)
MaxHyst == 1

MaxShort == 1

\* (level, hysteresis) pairs: the tests' Trigger::new(50, 1), (0x7f, 3) and
\* (-128, 3), and a negative level without hysteresis
TrigParams == {<<50, MaxHyst>>, <<-3, 0>>, <<-128, 3>>, <<127, 3>>}

\* sample values around the thresholds of trigger t
SampleVals(t) ==
    {t.below - 1, t.below, t.level, t.above, t.above + 1} \cap I8

RunLens == (0..MaxShort) \cup {GROUP - 1, GROUP, GROUP + 1}

Runs(a, n1, b, n2, c, n3) ==
    [i \in 1..(n1 + n2 + n3) |->
        IF i <= n1 THEN a ELSE IF i <= n1 + n2 THEN b ELSE c]

NoCall ==
    [n |-> 0, data |-> <<>>, filter |-> "Both", before |-> "Fresh",
     consumed |-> 0, edge |-> "None"]

TrigIdle ==
    /\ trig = TriggerNew(0, 0)
    /\ call = NoCall

TrigStart ==
    /\ \E p \in TrigParams : trig = TriggerNew(p[1], p[2])
    /\ call = NoCall

\* test::prime_trigger: one sample scanned by a Fresh trigger
PrimeTrigger(v) ==
    /\ trig.state = "Fresh"
    /\ call.n = 0
    /\ trig' = Scan(trig, <<v>>, "Both").trig
    /\ UNCHANGED call

\* one call of Trigger::find
DoFind(data, filter) ==
    /\ call.n = 0
    /\ LET r == Find(trig, data, filter)
       IN  /\ trig' = r.trig
           /\ call' = [n |-> 1, data |-> data, filter |-> filter,
                       before |-> trig.state, consumed |-> r.consumed,
                       edge |-> r.edge]

TrigPrime ==
    /\ trig.state = "Fresh"
    /\ call.n = 0
    /\ \E v \in SampleVals(trig) : PrimeTrigger(v)
    /\ UNCHANGED trigOthers

TrigFind ==
    /\ call.n = 0
    /\ \E a, b, c \in SampleVals(trig), n1, n2, n3 \in RunLens,
          filter \in EdgeFilters :
            DoFind(Runs(a, n1, b, n2, c, n3), filter)
    /\ UNCHANGED trigOthers

(***************************************************************************)
(* A sample stream fed to one Trigger by successive find calls, each given *)
(* the samples from where the previous call stopped: the first call gets a *)
(* first part of the stream, the later calls all that is left of it        *)
(***************************************************************************)
\* the find calls made on one stream
MaxCalls == 3

FeedParams == {<<50, MaxHyst>>, <<-3, 0>>}

\* sample values beyond the thresholds of trigger t
FeedVals(t) == {t.below - 1, t.above + 1}

FeedLens == {0, MaxShort, GROUP - 1, GROUP + 1}

\* the states a trigger can be in before a call: Fresh, or as primed by a
\* sample below level or by one not below it
StartStates(t) ==
    {"Fresh", "Above"} \cup (IF t.level > -128 THEN {"Below"} ELSE {})

NoFeed ==
    [data |-> <<>>, filter |-> "Both", t0 |-> TriggerNew(0, 0), calls |-> 0,
     avail |-> 0, pos |-> 0, split |-> 0, left |-> 0, last |-> "None",
     edges |-> <<>>]

FeedIdle == feed = NoFeed

FeedStart ==
    /\ \E p \in FeedParams :
         \E state \in StartStates(TriggerNew(p[1], p[2])) :
            trig = [TriggerNew(p[1], p[2]) EXCEPT !.state = state]
    /\ call = NoCall
    /\ \E a, b, c \in FeedVals(trig), n1, n2, n3 \in FeedLens,
          filter \in EdgeFilters :
            feed = [NoFeed EXCEPT !.data = Runs(a, n1, b, n2, c, n3),
                                  !.filter = filter, !.t0 = trig]

\* one find call on the samples from where the last call stopped up to the
\* first m samples of the stream
FeedFind(m) ==
    LET r == Find(trig, SubSeq(feed.data, feed.pos + 1, m), feed.filter)
    IN  /\ trig' = r.trig
        /\ feed' = [feed EXCEPT
                       !.calls = feed.calls + 1,
                       !.avail = m,
                       !.pos = feed.pos + r.consumed,
                       !.split = IF feed.calls = 0 THEN m ELSE feed.split,
                       !.left = IF feed.calls = 0 THEN m - r.consumed
                                ELSE feed.left,
                       !.last = r.edge,
                       !.edges = IF r.edge = "None" THEN feed.edges
                                 ELSE Append(feed.edges, r.edge)]

feedOthers == <<call, ringVars, strmVars, smpVars, devVars, calc, fifo>>

\* the first call, on a first part of any length
FeedFirst ==
    /\ feed.calls = 0
    /\ \E m \in 0..Len(feed.data) : FeedFind(m)
    /\ UNCHANGED feedOthers

\* a later call, on the rest of the first part and all that follows it
FeedRest ==
    /\ feed.calls \in 1..(MaxCalls - 1)
    /\ FeedFind(Len(feed.data))
    /\ UNCHANGED feedOthers



(***************************************************************************)
(* capture.rs: RingSlice, RingCursor, RingBuffer                           *)
(***************************************************************************)
\* the machine word of usize arithmetic, narrowed from 64 bits
UsizeBits == 5

UsizeModulus == 2 ^ UsizeBits

WrappingAdd(a, b) == (a + b) % UsizeModulus

WrappingSub(a, b) == (a - b) % UsizeModulus

\* u8 reinterpreted as i8 (bytemuck::cast_slice)
CastI8(b) == IF b >= 128 THEN b - 256 ELSE b

\* usize::next_multiple_of
NextMultipleOf(n, m) == ((n + m - 1) \div m) * m

\* RingSlice::new: the length mapped for min_size under allocation size
\* `alloc` and page size `page`
RingSliceLen(min_size, alloc, page) ==
    Max2(NextMultipleOf(min_size, alloc), page * 2)

\* vmap::os::map_ring maps the same len bytes at ptr and at ptr + len: the
\* byte of the mapping that virtual offset v (0 <= v < 2 * len) names
Mirror(v, len) == v % len

\* RingCursor::new
RingCursorNew(bound) == [index |-> 0, bound |-> bound]

\* impl Add<usize> for RingCursor
RingCursorAdd(c, offset) ==
    [index |-> WrappingAdd(c.index, offset) % c.bound, bound |-> c.bound]

\* impl Sub<usize> for RingCursor
RingCursorSub(c, offset) ==
    [index |-> WrappingSub(c.index, offset) % c.bound, bound |-> c.bound]

\* RingBuffer::new
RingBufferNew(min_size, alloc, page) ==
    LET len == RingSliceLen(min_size, alloc, page)
    IN  [len |-> len, bytes |-> [p \in 0..(len - 1) |-> 0],
         cursor |-> RingCursorNew(len)]

\* Index<RangeFrom<usize>> for RingSlice: (ptr.offset(start), len), or a
\* panic when the assertion start < len fails
RangeFromUnshifted(len, start) ==
    IF start < len THEN [ok |-> TRUE, ptr |-> 0, len |-> len]
    ELSE [ok |-> FALSE, ptr |-> 0, len |-> 0]

RangeFrom(len, start) ==
    IF start < len THEN [ok |-> TRUE, ptr |-> start, len |-> len]
    ELSE [ok |-> FALSE, ptr |-> 0, len |-> 0]

\* slice[..count] of a slice (ptr, len): a panic when count > len
RangeTo(slice, count) ==
    IF slice.ok /\ count <= slice.len
    THEN [ok |-> TRUE, ptr |-> slice.ptr, len |-> count]
    ELSE [ok |-> FALSE, ptr |-> 0, len |-> 0]

\* the bytes after a writer stored data at the start of the slice
StoreSlice(bytes, len, slice, data) ==
    [p \in 0..(len - 1) |->
        IF \E t \in 1..Len(data) : Mirror(slice.ptr + t - 1, len) = p
        THEN data[CHOOSE t \in 1..Len(data) : Mirror(slice.ptr + t - 1, len) = p]
        ELSE bytes[p]]

\* the bytes of a slice, as a sequence
LoadSlice(bytes, len, slice) ==
    [t \in 1..slice.len |-> bytes[Mirror(slice.ptr + t - 1, len)]]

\* RingBuffer::append with a writer that stores `data` (at most max_size
\* bytes) at the start of the slice it is given and returns Ok(Len(data))
\* when ok, an error otherwise
RingAppend(r, max_size, data, ok) ==
    LET slice == RangeTo(RangeFrom(r.len, r.cursor.index), max_size)
    IN  [r EXCEPT !.bytes  = StoreSlice(r.bytes, r.len, slice, data),
                  !.cursor = IF ok THEN RingCursorAdd(r.cursor, Len(data))
                             ELSE r.cursor]

\* RingBuffer::read: the i8 view of buffer[cursor.index..][..count]
RingRead(r, cursor, count) ==
    LET slice == RangeTo(RangeFrom(r.len, cursor.index), count)
        raw   == LoadSlice(r.bytes, r.len, slice)
    IN  [t \in 1..count |-> CastI8(raw[t])]

(***************************************************************************)
(* Ring buffer scenarios: a buffer of any of a few lengths, appended to    *)
(* and read at any cursor                                                  *)
(***************************************************************************)
MaxMinSize == 4

\* the bytes writers store (0 is the content of a fresh mapping)
WriterBytes == {1, 200}

AllocSizes == {1, 2}

PageSize == 1

NoRead == [n |-> -1, index |-> 0, samples |-> <<>>]

RingIdle ==
    /\ ring = RingBufferNew(0, 1, 1)
    /\ ringLast = [p \in 0..(ring.len - 1) |-> 0]
    /\ ringRead = NoRead

RingStart ==
    /\ \E min_size \in 0..MaxMinSize, alloc \in AllocSizes :
            ring = RingBufferNew(min_size, alloc, PageSize)
    /\ ringLast = [p \in 0..(ring.len - 1) |-> 0]
    /\ ringRead = NoRead

\* one RingBuffer::append call
DoAppend ==
    /\ \E max_size \in 0..ring.len, ok \in BOOLEAN :
           \E n \in 0..max_size : \E data \in [1..n -> WriterBytes] :
               /\ ring' = RingAppend(ring, max_size, data, ok)
               /\ ringLast' = [p \in 0..(ring.len - 1) |->
                                 IF \E t \in 0..(n - 1) :
                                       (ring.cursor.index + t) % ring.len = p
                                 THEN data[1 + ((p - ring.cursor.index) % ring.len)]
                                 ELSE ringLast[p]]
               /\ ringRead' = NoRead
    /\ UNCHANGED ringOthers

\* one RingBuffer::read call, at any cursor of the buffer
DoRead ==
    /\ \E i \in 0..(ring.len - 1), n \in 0..ring.len :
           /\ ringRead' = [n |-> n, index |-> i,
                           samples |-> RingRead(ring, [index |-> i, bound |-> ring.len], n)]
           /\ UNCHANGED <<ring, ringLast>>
    /\ UNCHANGED ringOthers


(***************************************************************************)
(* device.rs: Streamer, and the data mover it reads from                   *)
(***************************************************************************)
\* PAGE_BITS, narrowed from 12
PageBits == 1

\* the width of Status.pages_moved, narrowed from 16
PagesMovedBits == 2

MEMORY_SIZE == 2 ^ (PagesMovedBits + PageBits)

\* Status::pages_moved: the low bits of the count of pages moved
PagesMoved(pages) == pages % (2 ^ PagesMovedBits)

\* the length taken up to the end of the memory, wherever the head is
StreamLengthToEnd(prev_cursor, next_cursor, buffer_len) ==
    Min2(buffer_len, MEMORY_SIZE - prev_cursor)

\* Streamer::read: the length of the next read_dma, from the cursor, the
\* device's head and the room left in the caller's buffer
StreamLength(prev_cursor, next_cursor, buffer_len) ==
    IF next_cursor < prev_cursor
    THEN Min2(buffer_len, MEMORY_SIZE - prev_cursor)    \* wraparound
    ELSE Min2(buffer_len, next_cursor - prev_cursor)    \* no wraparound

\* Streamer::read: the cursor after a read_dma of `length` bytes
AdvanceCursor(prev_cursor, length, next_cursor) ==
    (prev_cursor + length) % MEMORY_SIZE

\* Driver::read_dma: `length` bytes of device memory from `addr`
ReadDma(mem, addr, length) == [t \in 1..length |-> mem[addr + t - 1]]

(***************************************************************************)
(* Streaming scenarios.  Every byte the data mover writes is tagged with   *)
(* its position in the device-side byte sequence S, so that a duplicated   *)
(* or skipped byte shows in what the reads return.                         *)
(***************************************************************************)
\* pages the data mover writes beyond one full turn of its memory
MaxExtraPages == 3

MaxDevPages == 2 ^ PagesMovedBits + MaxExtraPages

\* the longest buffer handed to Streamer::read
MaxBufLen == 3

\* the transport errors (Err from read_user or read_dma) of a run
MaxReadErrors == 1

NoCursor == -1

\* calls: the read calls entered so far, counted up to 2
StrmNew ==
    [cursor |-> NoCursor, pc |-> "idle", buf |-> 0, written |-> 0,
     chunk |-> <<>>, addr |-> 0, length |-> 0, next |-> 0, calls |-> 0]

\* what the first read call returned
NoReturn == [kind |-> "none", n |-> 0]

\* running: the data mover is enabled and moves pages
DevStart ==
    [pages |-> 0, mem |-> [a \in 0..(MEMORY_SIZE - 1) |-> -1], fault |-> FALSE,
     running |-> TRUE]

StrmIdle ==
    /\ dev = DevStart
    /\ strm = StrmNew
    /\ strmOut = [latched |-> -1, bytes |-> <<>>, lagged |-> FALSE,
                  lost |-> 0, errors |-> 0, first |-> NoReturn]

\* a Device with no Streamer, its data mover halted
StrmAbsent ==
    /\ dev = [DevStart EXCEPT !.running = FALSE]
    /\ strm = [StrmNew EXCEPT !.pc = "absent"]
    /\ strmOut = [latched |-> -1, bytes |-> <<>>, lagged |-> FALSE,
                  lost |-> 0, errors |-> 0, first |-> NoReturn]

\* Device::stream_data: Streamer { device, cursor: None }
StrmStart ==
    /\ dev = DevStart
    /\ strm = StrmNew
    /\ strmOut = [latched |-> -1, bytes |-> <<>>, lagged |-> FALSE,
                  lost |-> 0, errors |-> 0, first |-> NoReturn]

\* the number of bytes by which the reader is behind the data mover in state
\* (d, s, o): bytes written minus bytes read since the head was latched
Lag(d, s, o) ==
    IF o.latched < 0 THEN 0
    ELSE d.pages * 2 ^ PageBits
         - (o.latched + Len(o.bytes) + o.lost + s.written)

Track(d, s, o) ==
    [o EXCEPT !.lagged = o.lagged \/ Lag(d, s, o) >= MEMORY_SIZE]

\* the data mover writes one more page and counts it in Status.pages_moved
DevWritePage ==
    /\ dev.running
    /\ dev.pages < MaxDevPages
    /\ ~dev.fault
    /\ LET first == dev.pages * 2 ^ PageBits
           d     == [dev EXCEPT
                        !.pages = dev.pages + 1,
                        !.mem = [a \in 0..(MEMORY_SIZE - 1) |->
                                    IF \E t \in 0..(2 ^ PageBits - 1) :
                                           (first + t) % MEMORY_SIZE = a
                                    THEN first + ((a - first) % MEMORY_SIZE)
                                    ELSE dev.mem[a]]]
       IN  /\ dev' = d
           /\ strmOut' = Track(d, strm, strmOut)
    /\ UNCHANGED strm
    /\ UNCHANGED strmOthers

\* the FPGA raises FifoOverflow or DatamoverError
DevFault ==
    /\ dev.running
    /\ ~dev.fault
    /\ dev' = [dev EXCEPT !.fault = TRUE]
    /\ UNCHANGED <<strm, strmOut>>
    /\ UNCHANGED strmOthers

\* a caller enters Streamer::read with a buffer of len bytes
ReadCall ==
    /\ strm.pc = "idle"
    /\ \E len \in 1..MaxBufLen :
            strm' = [strm EXCEPT !.pc = "loop", !.buf = len, !.written = 0,
                                 !.chunk = <<>>,
                                 !.calls = Min2(strm.calls + 1, 2)]
    /\ UNCHANGED <<dev, strmOut>>
    /\ UNCHANGED strmOthers

\* Ok(written): the bytes of this call reach the caller
Return(s, o) ==
    /\ strm' = [s EXCEPT !.pc = "idle", !.buf = 0, !.written = 0,
                         !.chunk = <<>>, !.addr = 0, !.length = 0,
                         !.next = 0]
    /\ strmOut' = Track(dev, strm',
                        [o EXCEPT !.bytes = o.bytes \o s.chunk,
                                  !.first = IF s.calls = 1
                                            THEN [kind |-> "Ok", n |-> s.written]
                                            ELSE o.first])

\* one turn of the while loop up to the read_dma: read Status, panic on a
\* failure flag, latch the head on the first ever read, or work out the
\* length to read; a length of zero ends the call
ReadStatus ==
    /\ strm.pc = "loop"
    /\ UNCHANGED dev
    /\ LET next_cursor == PagesMoved(dev.pages) * 2 ^ PageBits
       IN  IF dev.fault
           THEN /\ strm' = [strm EXCEPT !.pc = "panicked"]
                /\ UNCHANGED strmOut
           ELSE IF strm.cursor = NoCursor
           THEN /\ strm' = [strm EXCEPT !.cursor = next_cursor]
                /\ strmOut' = [strmOut EXCEPT
                                  !.latched = dev.pages * 2 ^ PageBits]
           ELSE LET length == StreamLength(strm.cursor, next_cursor, strm.buf)
                IN  IF length > 0
                    THEN /\ strm' = [strm EXCEPT !.pc = "dma",
                                        !.addr = strm.cursor,
                                        !.length = length,
                                        !.next = next_cursor]
                         /\ UNCHANGED strmOut
                    ELSE Return(strm, strmOut)
    /\ UNCHANGED strmOthers

\* the read_dma of the turn and the bookkeeping after it; the call returns
\* when the buffer is full
ReadData ==
    /\ strm.pc = "dma"
    /\ UNCHANGED dev
    /\ LET s == [strm EXCEPT
                    !.pc = "loop",
                    !.cursor = AdvanceCursor(strm.addr, strm.length, strm.next),
                    !.chunk = strm.chunk \o ReadDma(dev.mem, strm.addr, strm.length),
                    !.written = strm.written + strm.length,
                    !.buf = strm.buf - strm.length]
       IN  IF s.buf > 0
           THEN strm' = s /\ strmOut' = Track(dev, s, strmOut)
           ELSE Return(s, strmOut)
    /\ UNCHANGED strmOthers

\* read_status()? or read_dma(...)? returns Err: the call ends at once, and
\* the bytes it had copied so far are not reported to the caller
ReadFails ==
    /\ strm.pc \in {"loop", "dma"}
    /\ strmOut.errors < MaxReadErrors
    /\ strm' = [strm EXCEPT !.pc = "idle", !.buf = 0, !.written = 0,
                            !.chunk = <<>>, !.addr = 0, !.length = 0,
                            !.next = 0]
    /\ strmOut' = [strmOut EXCEPT !.errors = strmOut.errors + 1,
                                  !.lost = strmOut.lost + Len(strm.chunk),
                                  !.first = IF strm.calls = 1
                                            THEN [kind |-> "Err", n |-> 0]
                                            ELSE strmOut.first]
    /\ UNCHANGED dev
    /\ UNCHANGED strmOthers

(***************************************************************************)
(* bin/gui/capture.rs: Sampler::trigger_and_capture; bin/gui/main.rs: the  *)
(* waveform pool and WaveformRenderer::poll                                *)
(***************************************************************************)
\* main: for _ in 0..4 { ... renderer_to_sampler_send.send(waveform) }
PoolSize == 4

Pool == 1..PoolSize

\* no waveform (Option::None)
NoWfm == 0

Modes == {"Idle", "FreeRunning", "SingleTrigger", "RepeatTrigger"}

\* Receiver::recv returns once a message is queued or the sender is gone
RecvReady(queue, sender_alive) == queue # <<>> \/ ~sender_alive

\* Receiver::try_recv returns at once
TryRecvBlocking(queue, sender_alive) == queue # <<>> \/ ~sender_alive

TryRecvReady(queue, sender_alive) == TRUE

\* the match on new_params.mode that makes the trigger
TriggerFor(mode) == mode \in {"SingleTrigger", "RepeatTrigger"}

\* the test `if wfm_active.capture.is_some() { if let Some(next_waveform) =
\* wfm_standby.take()`: whether the active waveform is submitted
SubmitsWithoutStandby(captured, standby) == captured

Submits(captured, standby) == captured /\ standby # NoWfm

\* Parameters::default(); a Parameters value is its mode and its place in
\* the order in which the values are received (0: none, the default)
ParametersDefault == [mode |-> "Idle", seq |-> 0]

\* set up capturing that leaves the snapshot of the waveform as it is
SetUpCaptureKeepingParams(waveform, params) == [waveform EXCEPT !.capture = FALSE]

\* set up capturing in active buffer:
\* wfm_active.params = params; wfm_active.capture = None
SetUpCapture(waveform, params) ==
    [waveform EXCEPT !.params = params, !.capture = FALSE]

\* a mode that stays SingleTrigger after a send
ModeAfterSendKept(mode) == mode

\* if only a single capture was requested, stop capturing
ModeAfterSend(mode) == IF mode = "SingleTrigger" THEN "Idle" ELSE mode

\* the sampler thread has ended: its channel ends are dropped with it
\* (after the loop, "done", the thread still has the device to shut down)
SamplerGone(s) == s.pc \in {"ended", "failed", "panicked"}

InLoop(s) == s.pc \in {"params", "standby", "capture", "submit"}

(***************************************************************************)
(* Pipeline scenarios                                                      *)
(***************************************************************************)
\* Parameters values the control thread sends
MaxParamSends == 2

SmpStart ==
    /\ smp = [pc |-> "prime", active |-> NoWfm, standby |-> NoWfm,
              mode |-> "Idle", trigger |-> FALSE, seq |-> 0]
    /\ chan = [toSampler |-> [i \in 1..PoolSize |-> i], toRenderer |-> <<>>,
               params |-> <<>>, paramSends |-> 0]
    /\ rend = [alive |-> TRUE, current |-> NoWfm, panicked |-> FALSE]
    /\ wfm = [w \in Pool |-> [capture |-> FALSE, params |-> ParametersDefault]]
    /\ smpHist = [dropped |-> {}, sent |-> FALSE, discarded |-> FALSE,
                 shutdown |-> FALSE, received |-> "None", sentSince |-> 0,
                 configured |-> 0]

SmpIdle == SmpStart

\* let mut wfm_active = self.waveform_recv.recv().expect(...)
SamplerPrime ==
    /\ smp.pc = "prime"
    /\ RecvReady(chan.toSampler, rend.alive)
    /\ IF chan.toSampler # <<>>
       THEN /\ smp' = [smp EXCEPT !.pc = "params",
                                  !.active = Head(chan.toSampler)]
            /\ chan' = [chan EXCEPT !.toSampler = Tail(chan.toSampler)]
       ELSE /\ smp' = [smp EXCEPT !.pc = "panicked"]
            /\ UNCHANGED chan
    /\ UNCHANGED <<rend, wfm, smpHist>>
    /\ UNCHANGED smpOthers

\* match self.params_recv.try_recv(): new parameters replace the old ones,
\* make the trigger and are handed to reconfigure, which may fail
SamplerPollParams ==
    /\ smp.pc = "params"
    /\ IF chan.params # <<>>
       THEN /\ chan' = [chan EXCEPT !.params = Tail(chan.params)]
            /\ \E ok \in BOOLEAN :
                 smp' = [smp EXCEPT !.pc = IF ok THEN "standby" ELSE "failed",
                                    !.mode = Head(chan.params),
                                    !.trigger = TriggerFor(Head(chan.params)),
                                    !.seq = smp.seq + 1]
            /\ smpHist' = [smpHist EXCEPT !.received = Head(chan.params),
                                          !.sentSince = 0,
                                          !.configured = smp.seq + 1]
       ELSE /\ smp' = [smp EXCEPT !.pc = "standby"]
            /\ UNCHANGED <<chan, smpHist>>
    /\ UNCHANGED <<rend, wfm>>
    /\ UNCHANGED smpOthers

\* match self.waveform_recv.try_recv(): a received waveform is stored in
\* wfm_standby (the waveform held there before, if any, is dropped); a
\* disconnected channel ends the loop
SamplerPollWaveform ==
    /\ smp.pc = "standby"
    /\ TryRecvReady(chan.toSampler, rend.alive)
    /\ IF chan.toSampler # <<>>
       THEN /\ smp' = [smp EXCEPT !.pc = "capture",
                                  !.standby = Head(chan.toSampler)]
            /\ chan' = [chan EXCEPT !.toSampler = Tail(chan.toSampler)]
            /\ smpHist' = [smpHist EXCEPT !.dropped =
                              IF smp.standby # NoWfm
                              THEN smpHist.dropped \cup {smp.standby}
                              ELSE smpHist.dropped]
       ELSE /\ smp' = [smp EXCEPT !.pc = IF rend.alive THEN "capture"
                                         ELSE "done"]
            /\ UNCHANGED <<chan, smpHist>>
    /\ UNCHANGED <<rend, wfm>>
    /\ UNCHANGED smpOthers

\* the capture slot is cleared, the buffer refilled from the reader (which
\* may fail) and, by mode, a capture set: always when free running, on an
\* edge (which the data decides) with a trigger, never when idle
SamplerCapture ==
    /\ smp.pc = "capture"
    /\ \E ok \in BOOLEAN, edge \in BOOLEAN :
         LET captured == \/ smp.mode = "FreeRunning"
                         \/ (smp.mode # "FreeRunning" /\ smp.trigger /\ edge)
         IN  /\ smp' = [smp EXCEPT !.pc = IF ok THEN "submit" ELSE "failed"]
             /\ wfm' = [wfm EXCEPT ![smp.active] =
                           [SetUpCapture(@, [mode |-> smp.mode, seq |-> smp.seq])
                              EXCEPT !.capture = ok /\ captured]]
    /\ UNCHANGED <<chan, rend, smpHist>>
    /\ UNCHANGED smpOthers

\* if there is a capture, try to submit it for processing
SamplerSubmit ==
    /\ smp.pc = "submit"
    /\ IF Submits(wfm[smp.active].capture, smp.standby)
       THEN IF rend.alive
            THEN /\ smp' = [smp EXCEPT
                               !.pc = "params",
                               !.mode = ModeAfterSend(smp.mode),
                               !.trigger = IF smp.mode = "SingleTrigger"
                                           THEN FALSE ELSE smp.trigger,
                               !.active = smp.standby,
                               !.standby = NoWfm]
                 /\ chan' = [chan EXCEPT !.toRenderer =
                                Append(chan.toRenderer, smp.active)]
                 /\ smpHist' = [smpHist EXCEPT
                                   !.sent = TRUE,
                                   !.sentSince = Min2(smpHist.sentSince + 1, 2)]
                 /\ UNCHANGED wfm
            ELSE \* send(...).expect("failed to send waveform")
                 /\ smp' = [smp EXCEPT !.pc = "panicked"]
                 /\ UNCHANGED <<chan, wfm, smpHist>>
       ELSE IF wfm[smp.active].capture
       THEN /\ smp' = [smp EXCEPT !.pc = "params"]
            /\ wfm' = [wfm EXCEPT ![smp.active].capture = FALSE]
            /\ smpHist' = [smpHist EXCEPT !.discarded = TRUE]
            /\ UNCHANGED chan
       ELSE /\ smp' = [smp EXCEPT !.pc = "params"]
            /\ UNCHANGED <<chan, wfm, smpHist>>
    /\ UNCHANGED rend
    /\ UNCHANGED smpOthers

\* Sampler::run after trigger_and_capture returned Ok(()):
\* instrument.shutdown()?; Ok(())
SamplerShutdown ==
    /\ smp.pc = "done"
    /\ \E ok \in BOOLEAN :
         smp' = [smp EXCEPT !.pc = IF ok THEN "ended" ELSE "failed"]
    /\ smpHist' = [smpHist EXCEPT !.shutdown = TRUE]
    /\ UNCHANGED <<chan, rend, wfm>>
    /\ UNCHANGED smpOthers

SamplerStep ==
    \/ SamplerPrime
    \/ SamplerPollParams
    \/ SamplerPollWaveform
    \/ SamplerCapture
    \/ SamplerSubmit

\* WaveformRenderer::poll when a waveform is queued: it becomes current and
\* the one held before is sent back
RendererPoll ==
    /\ rend.alive /\ ~rend.panicked
    /\ chan.toRenderer # <<>>
    /\ IF rend.current # NoWfm /\ SamplerGone(smp)
       THEN \* send(old_waveform).expect("failed to return waveform")
            /\ rend' = [rend EXCEPT !.panicked = TRUE,
                                    !.current = Head(chan.toRenderer)]
            /\ chan' = [chan EXCEPT !.toRenderer = Tail(chan.toRenderer)]
       ELSE /\ rend' = [rend EXCEPT !.current = Head(chan.toRenderer)]
            /\ chan' = [chan EXCEPT
                           !.toRenderer = Tail(chan.toRenderer),
                           !.toSampler = IF rend.current # NoWfm
                                         THEN Append(chan.toSampler, rend.current)
                                         ELSE chan.toSampler]
    /\ UNCHANGED <<smp, wfm, smpHist>>
    /\ UNCHANGED smpOthers

\* WaveformRenderer::poll when nothing is queued and the sampler is gone:
\* panic!("renderer: failed to receive waveform")
RendererPollDisconnected ==
    /\ rend.alive /\ ~rend.panicked
    /\ chan.toRenderer = <<>>
    /\ SamplerGone(smp)
    /\ rend' = [rend EXCEPT !.panicked = TRUE]
    /\ UNCHANGED <<smp, chan, wfm, smpHist>>
    /\ UNCHANGED smpOthers

\* the renderer is dropped, both its channel ends and its waveform with it
RendererDrop ==
    /\ rend.alive
    /\ rend' = [rend EXCEPT !.alive = FALSE, !.current = NoWfm]
    /\ chan' = [chan EXCEPT !.toRenderer = <<>>]
    /\ UNCHANGED <<smp, wfm, smpHist>>
    /\ UNCHANGED smpOthers

\* the control thread sends a Parameters value
ControlSend ==
    /\ chan.paramSends < MaxParamSends
    /\ \E mode \in Modes :
         chan' = [chan EXCEPT !.params = Append(chan.params, mode),
                              !.paramSends = chan.paramSends + 1]
    /\ UNCHANGED <<smp, rend, wfm, smpHist>>
    /\ UNCHANGED smpOthers

(***************************************************************************)
(* device.rs: Device::startup, configure, shutdown and the register        *)
(* writers under them.  The Control register is the set of its set bits;   *)
(* a call's writes are logged in the order they are issued.                *)
(***************************************************************************)
\* regs/axi.rs: Control::ch_termination, ch_coupling, ch_attenuator
ChTermination(index) ==
    <<"Ch1Termination", "Ch2Termination", "Ch3Termination", "Ch4Termination">>[index + 1]

ChCoupling(index) ==
    <<"Ch1Coupling", "Ch2Coupling", "Ch3Coupling", "Ch4Coupling">>[index + 1]

ChAttenuator(index) ==
    <<"Ch1Attenuator", "Ch2Attenuator", "Ch3Attenuator", "Ch4Attenuator">>[index + 1]

ChannelBits(index) == {ChTermination(index), ChCoupling(index), ChAttenuator(index)}

SPI_BUS_PGA == <<2, 3, 4, 5>>

WIPER_ADDRESS == <<6, 0, 1, 7>>

\* params.rs: the lmh6518_code of each PGA setting
AmplificationCode(a) == (IF a = "dB10" THEN 0 ELSE 1) * (2 ^ 4)

FineAttenuationCode(f) ==
    CASE f = "dB0" -> 0 [] f = "dB2" -> 1 [] f = "dB4" -> 2 [] f = "dB6" -> 3
      [] f = "dB8" -> 4 [] f = "dB10" -> 5 [] f = "dB12" -> 6
      [] f = "dB14" -> 7 [] f = "dB16" -> 8 [] f = "dB18" -> 9
      [] f = "dB20" -> 10

FilteringCode(f) ==
    (CASE f = "MHz20" -> 1 [] f = "MHz100" -> 2 [] f = "MHz200" -> 3
       [] f = "MHz350" -> 4 [] f = "Off" -> 0) * (2 ^ 6)

\* params.rs: the Default of ChannelParameters and of its fields
ChannelDefault ==
    [termination |-> "Ohm1M", coupling |-> "DC", coarse_attenuation |-> "X50",
     amplification |-> "dB30", fine_attenuation |-> "dB0",
     filtering |-> "MHz100", offset_magnitude |-> \h40,
     offset_value |-> \h3fff]

\* Option<ChannelParameters>
SomeChannel(p) == [some |-> TRUE, val |-> p]

NoChannel == [some |-> FALSE, val |-> ChannelDefault]

UnwrapOrDefault(o) == IF o.some THEN o.val ELSE ChannelDefault

\* DeviceParameters::default()
DeviceDefault == [i \in 1..4 |-> SomeChannel(ChannelDefault)]

\* write_control
WriteControl(d, value) ==
    [d EXCEPT !.ctl = value,
              !.log = Append(d.log, [op |-> "control", value |-> value])]

\* modify_control flipping the bits to insert
ModifyControlFlipping(d, remove, insert) ==
    WriteControl(d, ((d.ctl \ remove) \ insert) \cup (insert \ d.ctl))

\* modify_control that removes nothing
ModifyControlKeeping(d, remove, insert) == WriteControl(d, d.ctl \cup insert)

\* modify_control with a closure that removes and then inserts bits
ModifyControl(d, remove, insert) == WriteControl(d, (d.ctl \ remove) \cup insert)

\* write_pll_register
PllWrite(reg_addr, value) == [op |-> "pll", reg |-> reg_addr, value |-> value]

\* init_pll_registers: one write_pll_register per word, in order
InitPllRegisters(d, init_words) ==
    [d EXCEPT !.log = d.log \o
        [i \in 1..Len(init_words) |->
            PllWrite((init_words[i] \div (2 ^ 8)) % (2 ^ 16),
                     init_words[i] % (2 ^ 8))]]

\* write_adc_register
AdcWrite(reg_addr, value) == [op |-> "adc", reg |-> reg_addr, value |-> value]

\* init_adc_registers: one write_adc_register per pair, in order
InitAdcRegisters(d, init_pairs) ==
    [d EXCEPT !.log = d.log \o
        [i \in 1..Len(init_pairs) |->
            AdcWrite(init_pairs[i][1], init_pairs[i][2])]]

\* write_pga_command
WritePgaCommand(d, pga_bus, command) ==
    [d EXCEPT !.log = Append(d.log, [op |-> "pga", bus |-> pga_bus,
                                      command |-> command])]

\* the command word of configure_pga; the fields occupy separate bits
PgaCommandAuxOn(params) ==
    FilteringCode(params.filtering) + AmplificationCode(params.amplification)
    + FineAttenuationCode(params.fine_attenuation)

PgaCommand(params) ==
    (2 ^ 10) + FilteringCode(params.filtering)
    + AmplificationCode(params.amplification)
    + FineAttenuationCode(params.fine_attenuation)

ConfigurePga(d, index, params) ==
    WritePgaCommand(d, SPI_BUS_PGA[index + 1], PgaCommand(params))

\* write_digipot_input
WriteDigipotInput(d, addr, input) ==
    [d EXCEPT !.log = Append(d.log, [op |-> "digipot",
                                      data |-> addr * (2 ^ 12) + (input % (2 ^ 10))])]

\* write_trimdac_input
WriteTrimdacInput(d, channel, input) ==
    [d EXCEPT !.log = Append(d.log, [op |-> "trimdac", channel |-> channel % 4,
                                      input |-> input])]

\* the trim-DAC input of configure_digipot_trimdac: (1 << 15) | code
TrimdacInput(code) ==
    IF (code \div (2 ^ 15)) % 2 = 1 THEN code ELSE (2 ^ 15) + code

ConfigureDigipotTrimdac(d, index, params) ==
    WriteTrimdacInput(
        WriteDigipotInput(d, WIPER_ADDRESS[index + 1], params.offset_magnitude),
        index, TrimdacInput(params.offset_value))

EnableDatamover(d) == ModifyControl(d, {}, {"DatamoverHaltN", "FpgaAcqResetN"})

DisableDatamoverResetFirst(d) ==
    ModifyControl(ModifyControl(d, {"FpgaAcqResetN"}, {}), {"DatamoverHaltN"}, {})

DisableDatamover(d) ==
    ModifyControl(ModifyControl(d, {"DatamoverHaltN"}, {}), {"FpgaAcqResetN"}, {})

\* the position taken from the front of the array instead
PositionFromFront(enabled, from) == SetMin({j \in from..3 : enabled[j + 1]})

\* enabled.iter().rev().skip(from).position(|&en| en).unwrap() + from
RevPosition(enabled, from) == SetMin({j \in from..3 : enabled[4 - j]})

EnabledCount(enabled) == Cardinality({i \in 1..4 : enabled[i]})

\* the ADC channel count of enable_adc_channels
Chnum(count) == CASE count = 1 -> 1 [] count = 2 -> 2 [] OTHER -> 4

Clkdiv(count) == CASE count = 1 -> 0 [] count = 2 -> 1 [] OTHER -> 2

Chmux(count) ==
    CASE count = 1 -> {} [] count = 2 -> {"ChannelMux0"} [] OTHER -> {"ChannelMux1"}

\* the ADC input select permutation, insel[0..3]
Insel(enabled) ==
    LET ch1_index == RevPosition(enabled, 0)
        ch2_index == RevPosition(enabled, ch1_index + 1)
    IN  CASE Chnum(EnabledCount(enabled)) = 1 ->
               <<ch1_index, ch1_index, ch1_index, ch1_index>>
          [] Chnum(EnabledCount(enabled)) = 2 ->
               <<ch2_index, ch2_index, ch1_index, ch1_index>>
          [] OTHER -> <<3, 2, 1, 0>>

\* enable_adc_channels that powers the ADC down before it counts the channels
EnableAdcChannelsPowerFirst(d, enabled) ==
    [InitAdcRegisters(d, << <<"POWER", \h0200>> >>) EXCEPT
        !.panicked = EnabledCount(enabled) = 0]

\* enable_adc_channels: no enabled channel is a panic before any write
EnableAdcChannels(d, enabled) ==
    IF EnabledCount(enabled) = 0
    THEN [d EXCEPT !.panicked = TRUE]
    ELSE LET count == EnabledCount(enabled)
             insel == Insel(enabled)
         IN  ModifyControl(
                 InitAdcRegisters(d, <<
                     <<"POWER", \h0200>>,
                     <<"CHNUM_CLKDIV", Clkdiv(count) * (2 ^ 8) + Chnum(count)>>,
                     <<"POWER", \h0000>>,
                     <<"INSEL12", \h0200 * (2 ^ insel[2]) + \h0002 * (2 ^ insel[1])>>,
                     <<"INSEL34", \h0200 * (2 ^ insel[4]) + \h0002 * (2 ^ insel[3])>> >>),
                 {"ChannelMux0", "ChannelMux1"}, Chmux(count))

\* the three loops of configure over the channels
RECURSIVE ConfigurePgas(_, _, _)
ConfigurePgas(d, params, index) ==
    IF index = 4 THEN d
    ELSE ConfigurePgas(ConfigurePga(d, index, UnwrapOrDefault(params[index + 1])),
                       params, index + 1)

\* the Control bits the closure of configure inserts for a channel; it
\* removes the channel's other bits
FrontendBits(index, ch_params) ==
    (IF ch_params.termination = "Ohm50" THEN {ChTermination(index)} ELSE {})
    \cup (IF ch_params.coupling = "DC" THEN {ChCoupling(index)} ELSE {})
    \cup (IF ch_params.coarse_attenuation = "X1" THEN {ChAttenuator(index)}
          ELSE {})

RECURSIVE ConfigureFrontends(_, _, _)
ConfigureFrontends(d, params, index) ==
    IF index = 4 THEN d
    ELSE ConfigureFrontends(
             ModifyControl(d, ChannelBits(index),
                           FrontendBits(index, UnwrapOrDefault(params[index + 1]))),
             params, index + 1)

RECURSIVE ConfigureOffsets(_, _, _)
ConfigureOffsets(d, params, index) ==
    IF index = 4 THEN d
    ELSE ConfigureOffsets(
             ConfigureDigipotTrimdac(d, index, UnwrapOrDefault(params[index + 1])),
             params, index + 1)

\* configure that leaves the data mover as it is
ConfigureWithoutHalt(d, params) ==
    LET pgas    == ConfigurePgas(d, params, 0)
        fronts  == ConfigureFrontends(pgas, params, 0)
        offsets == ConfigureOffsets(fronts, params, 0)
        adc     == EnableAdcChannels(offsets, [i \in 1..4 |-> params[i].some])
    IN  IF adc.panicked THEN adc ELSE EnableDatamover(adc)

\* Device::configure
Configure(d, params) ==
    LET pgas    == ConfigurePgas(d, params, 0)
        fronts  == ConfigureFrontends(pgas, params, 0)
        offsets == ConfigureOffsets(fronts, params, 0)
        halted  == DisableDatamover(offsets)
        adc     == EnableAdcChannels(halted, [i \in 1..4 |-> params[i].some])
    IN  IF adc.panicked THEN adc ELSE EnableDatamover(adc)

\* the Rev4 blob
PLL_INIT_WORDS ==
    << \h042308, \h000301, \h000402, \h000521,
       \h000701, \h010042, \h010100, \h010201,
       \h010600, \h010700, \h010800, \h010900,
       \h010A20, \h010B03, \h012160, \h012790,
       \h014100, \h014200, \h014300, \h014400,
       \h0145A0, \h015300, \h015450, \h0155CE,
       \h018000, \h020080, \h020105, \h025080,
       \h025102, \h04300C, \h043000 >>

PLL_ALIGN_WORDS == << \h010002, \h010042 >>

ADC_INIT_PAIRS ==
    << <<"RESET", \h0001>>, <<"POWER", \h0200>>, <<"INVERT", \h007F>>,
       <<"FS_CNTRL", \h0020>>, <<"GAIN_CFG", \h0000>>, <<"QUAD_GAIN", \h9999>>,
       <<"DUAL_GAIN", \h0A99>>, <<"RES_SEL", \h0000>>,
       <<"LVDS_PHASE", \h0060>>, <<"LVDS_DRIVE", \h0222>> >>

\* Device::startup
Startup(d) ==
    LET stopped == DisableDatamover(d)
        rail3v3 == ModifyControl(stopped, {}, {"ClockGenResetN", "Rail3V3Enabled"})
        reset   == ModifyControl(rail3v3, {"ClockGenResetN"}, {})
        running == ModifyControl(reset, {}, {"ClockGenResetN"})
        pll     == InitPllRegisters(running, PLL_INIT_WORDS)
        aligned == InitPllRegisters(pll, PLL_ALIGN_WORDS)
        adc     == InitAdcRegisters(aligned, ADC_INIT_PAIRS)
        rail5v  == ModifyControl(adc, {}, {"Rail5VEnabled"})
    IN  Configure(rail5v, DeviceDefault)

\* shutdown that powers down before it halts the data mover
ShutdownPowerFirst(d) == DisableDatamover(WriteControl(d, {}))

\* Device::shutdown
Shutdown(d) == WriteControl(DisableDatamover(d), {})

(***************************************************************************)
(* Device scenarios                                                        *)
(***************************************************************************)
ChannelAlt ==
    [termination |-> "Ohm50", coupling |-> "AC", coarse_attenuation |-> "X1",
     amplification |-> "dB10", fine_attenuation |-> "dB20",
     filtering |-> "Off", offset_magnitude |-> \h7f, offset_value |-> \h0fff]

ChannelChoices == {NoChannel, SomeChannel(ChannelDefault), SomeChannel(ChannelAlt)}

\* the channels that are given other than default settings
AltChannels == 1

DeviceParams ==
    {params \in [1..4 -> ChannelChoices] :
        \A i \in 1..4 : params[i] = SomeChannel(ChannelAlt) => i <= AltChannels}

\* the Control value a run that was not shut down leaves behind
RunningControl ==
    {"DatamoverHaltN", "FpgaAcqResetN", "ClockGenResetN", "Rail3V3Enabled",
     "Rail5VEnabled", "ChannelMux1", "Ch1Coupling", "Ch2Coupling",
     "Ch3Coupling", "Ch4Coupling"}

InitialControls == {{}, RunningControl}

NoDevCall == [op |-> "none", params |-> DeviceDefault, before |-> {},
              result |-> "None"]

DevIdle == ctl = {} /\ devLog = <<>> /\ devCall = NoDevCall

DeviceStart == ctl \in InitialControls /\ devLog = <<>> /\ devCall = NoDevCall

\* the Control register after the writes of log
ControlAfter(ctl0, log) ==
    LET writes == {i \in 1..Len(log) : log[i].op = "control"}
    IN  IF writes = {} THEN ctl0
        ELSE log[CHOOSE i \in writes : \A j \in writes : j <= i].value

\* a call issues the writes of d in order; a transport error (the `?` on a
\* register read or write) ends it with Err before any of them
Returns(op, params, d) ==
    \E n \in 0..Len(d.log) :
        /\ devLog' = SubSeq(d.log, 1, n)
        /\ ctl' = ControlAfter(ctl, SubSeq(d.log, 1, n))
        /\ devCall' = [op |-> op, params |-> params, before |-> ctl,
                       result |-> IF n < Len(d.log) THEN "Err"
                                  ELSE IF d.panicked THEN "Panic" ELSE "Ok"]

\* a caller gives up the device after an error or a panic
DeviceUsable == devCall.result \in {"None", "Ok"}

DeviceFresh == [ctl |-> ctl, log |-> <<>>, panicked |-> FALSE]

DevStartup ==
    /\ DeviceUsable
    /\ Returns("startup", DeviceDefault, Startup(DeviceFresh))
    /\ UNCHANGED devOthers

DevConfigure ==
    /\ DeviceUsable
    /\ \E params \in DeviceParams :
         Returns("configure", params, Configure(DeviceFresh, params))
    /\ UNCHANGED devOthers

DevShutdown ==
    /\ DeviceUsable
    /\ Returns("shutdown", DeviceDefault, Shutdown(DeviceFresh))
    /\ UNCHANGED devOthers

(***************************************************************************)
(* Sequences of successful device calls, with the register state they      *)
(* leave: the Control register and the last value written to each PGA,     *)
(* digipot, trim-DAC, ADC and PLL register                                 *)
(***************************************************************************)
\* the calls of one sequence
MaxSeqCalls == 3

\* two writes go to the same register of the same chip
SameReg(a, b) ==
    /\ a.op = b.op
    /\ CASE a.op = "pga" -> a.bus = b.bus
         [] a.op = "digipot" -> a.data \div (2 ^ 12) = b.data \div (2 ^ 12)
         [] a.op = "trimdac" -> a.channel = b.channel
         [] a.op \in {"adc", "pll"} -> a.reg = b.reg
         [] OTHER -> TRUE

\* the register state after the writes of log: per register other than
\* Control, the last write to it
RegsAfter(regs, log) ==
    {r \in regs : \A j \in 1..Len(log) : ~SameReg(r, log[j])}
    \cup {log[i] : i \in {i \in 1..Len(log) :
                            /\ log[i].op # "control"
                            /\ \A j \in (i + 1)..Len(log) :
                                  ~SameReg(log[i], log[j])}}

\* the Control value a run with 50 Ohm termination on two channels leaves
TerminatedControl ==
    {"DatamoverHaltN", "FpgaAcqResetN", "ClockGenResetN", "Rail3V3Enabled",
     "Rail5VEnabled", "ChannelMux0", "Ch1Termination", "Ch2Termination",
     "Ch1Attenuator"}

PriorControls == InitialControls \cup {TerminatedControl}

\* the parameters with at least one enabled channel
EnabledParams == {params \in DeviceParams : \E i \in 1..4 : params[i].some}

\* p: the parameters of the configure calls of the sequence
SeqStart ==
    /\ ctl \in PriorControls
    /\ devLog = <<>>
    /\ \E p \in EnabledParams :
          devCall = [op |-> "none", params |-> p, before |-> {},
                     result |-> "None", p |-> p, regs |-> {}, hist |-> <<>>]

\* a call issues all the writes of d and returns Ok
Completes(op, params, d) ==
    /\ Len(devCall.hist) < MaxSeqCalls
    /\ ~d.panicked
    /\ devLog' = d.log
    /\ ctl' = d.ctl
    /\ LET regs == RegsAfter(devCall.regs, d.log)
       IN  devCall' = [devCall EXCEPT
                          !.op = op, !.params = params, !.before = ctl,
                          !.result = "Ok", !.regs = regs,
                          !.hist = Append(devCall.hist,
                                          [op |-> op, params |-> params,
                                           ctl |-> d.ctl, regs |-> regs])]

SeqStartup ==
    /\ Completes("startup", DeviceDefault, Startup(DeviceFresh))
    /\ UNCHANGED devOthers

SeqConfigure ==
    /\ Completes("configure", devCall.p, Configure(DeviceFresh, devCall.p))
    /\ UNCHANGED devOthers

SeqShutdown ==
    /\ Completes("shutdown", DeviceDefault, Shutdown(DeviceFresh))
    /\ UNCHANGED devOthers

(***************************************************************************)
(* Trigger construction: Trigger::new for any level and hysteresis, then   *)
(* the trigger primed and given blocks of one extreme sample value         *)
(***************************************************************************)
NoCalc == [op |-> "none"]

CalcIdle == calc = NoCalc

calcOthers == <<ringVars, strmVars, smpVars, devVars, feed, fifo>>

\* the arguments of Trigger::new(level: i8, hysteresis: u8)
U8 == 0..255

\* the blocks scanned after one construction
MaxBlocks == 2

\* a block of one SIMD group of the same sample
Block(v) == [i \in 1..GROUP |-> v]

ExtremeSamples == {-128, 127}

\* the hystereses of the triggers that go on to scan
ScannedHystereses == {0, 3, 255}

ThresholdStart ==
    /\ \E level \in I8, hysteresis \in U8 :
          calc = [op |-> "Trigger::new", level |-> level,
                  hysteresis |-> hysteresis, done |-> FALSE, blocks |-> 0]
    /\ TrigIdle

\* Trigger::new(level, hysteresis)
CallTriggerNew ==
    /\ calc.op = "Trigger::new"
    /\ ~calc.done
    /\ trig' = TriggerNew(calc.level, calc.hysteresis)
    /\ calc' = [calc EXCEPT !.done = TRUE]
    /\ UNCHANGED call
    /\ UNCHANGED calcOthers

\* the new trigger primed with one sample, as test::prime_trigger does
CallPrime ==
    /\ calc.op = "Trigger::new"
    /\ calc.done
    /\ trig.state = "Fresh"
    /\ calc.hysteresis \in ScannedHystereses
    /\ \E v \in ExtremeSamples : trig' = Scan(trig, <<v>>, "Both").trig
    /\ UNCHANGED <<call, calc>>
    /\ UNCHANGED calcOthers

\* Trigger::find on one block of an extreme sample
CallFindBlock ==
    /\ calc.op = "Trigger::new"
    /\ calc.done
    /\ trig.state # "Fresh"
    /\ calc.blocks < MaxBlocks
    /\ \E v \in ExtremeSamples :
          LET r == Find(trig, Block(v), "Both")
          IN  /\ trig' = r.trig
              /\ call' = [n |-> calc.blocks + 1, data |-> Block(v),
                          filter |-> "Both", before |-> trig.state,
                          consumed |-> r.consumed, edge |-> r.edge]
    /\ calc' = [calc EXCEPT !.blocks = calc.blocks + 1]
    /\ UNCHANGED calcOthers

(***************************************************************************)
(* Ring cursor and ring slice operations called on their own: a cursor     *)
(* moved by any offset, a slice indexed by any range, a slice created for  *)
(* any minimum size                                                        *)
(***************************************************************************)
\* the bounds of the cursors moved
MaxBound == 6

\* the page sizes, and the allocation granularities as multiples of a page
\* (vmap::page_size and vmap::allocation_size: equal on Linux, 4 KiB and
\* 64 KiB on Windows)
PageSizes == {1, 2}

GranularityPages == {1, 2, 4}

\* the lengths RingSlice::new gives the slices indexed
RingLens ==
    {RingSliceLen(m, a, PageSize) : m \in 0..MaxMinSize, a \in AllocSizes}

\* a ring whose bytes all differ
Numbered(len) == [p \in 0..(len - 1) |-> p + 1]

\* Index<Range<usize>> for RingSlice with the wrapped length cut at the seam
IndexRangeToSeam(len, start, end) ==
    IF ~(start < len /\ end <= len) THEN [ok |-> FALSE, ptr |-> 0, len |-> 0]
    ELSE IF end >= start THEN [ok |-> TRUE, ptr |-> start, len |-> end - start]
    ELSE [ok |-> TRUE, ptr |-> start, len |-> len - start]

\* Index<Range<usize>> for RingSlice: (ptr.offset(start), length), or a
\* panic when the assertion start < len && end <= len fails
IndexRange(len, start, end) ==
    IF ~(start < len /\ end <= len) THEN [ok |-> FALSE, ptr |-> 0, len |-> 0]
    ELSE IF end >= start THEN [ok |-> TRUE, ptr |-> start, len |-> end - start]
    ELSE [ok |-> TRUE, ptr |-> start, len |-> (len - start) + end]

RingCallStart ==
    /\ \/ \E bound \in 1..MaxBound :
          \E index \in 0..(bound - 1), offset \in 0..(UsizeModulus - 1),
             op \in {"add", "sub"} :
               calc = [op |-> op, done |-> FALSE,
                       c |-> [index |-> index, bound |-> bound],
                       offset |-> offset]
       \/ \E len \in RingLens :
          \E start \in 0..len, end \in 0..(2 * len) :
               calc = [op |-> "index", done |-> FALSE, len |-> len,
                       bytes |-> Numbered(len), start |-> start, end |-> end]
       \/ \E min_size \in 0..MaxMinSize, page \in PageSizes,
             pages \in GranularityPages :
               calc = [op |-> "RingSlice::new", done |-> FALSE,
                       min_size |-> min_size, alloc |-> pages * page,
                       page |-> page]

\* cursor + offset
CallCursorAdd ==
    /\ calc.op = "add"
    /\ ~calc.done
    /\ calc' = [op |-> "add", done |-> TRUE, c |-> calc.c,
                offset |-> calc.offset,
                out |-> RingCursorAdd(calc.c, calc.offset)]
    /\ UNCHANGED <<trigVars, calcOthers>>

\* cursor - offset
CallCursorSub ==
    /\ calc.op = "sub"
    /\ ~calc.done
    /\ calc' = [op |-> "sub", done |-> TRUE, c |-> calc.c,
                offset |-> calc.offset,
                out |-> RingCursorSub(calc.c, calc.offset)]
    /\ UNCHANGED <<trigVars, calcOthers>>

\* &slice[start..end]
CallIndexRange ==
    /\ calc.op = "index"
    /\ ~calc.done
    /\ LET slice == IndexRange(calc.len, calc.start, calc.end)
       IN  calc' = [op |-> "index", done |-> TRUE, len |-> calc.len,
                    bytes |-> calc.bytes, start |-> calc.start,
                    end |-> calc.end, ok |-> slice.ok,
                    out |-> LoadSlice(calc.bytes, calc.len, slice)]
    /\ UNCHANGED <<trigVars, calcOthers>>

\* RingSlice::new(min_size), the mapping succeeding
CallRingSliceNew ==
    /\ calc.op = "RingSlice::new"
    /\ ~calc.done
    /\ calc' = [op |-> "RingSlice::new", done |-> TRUE,
                min_size |-> calc.min_size, alloc |-> calc.alloc,
                page |-> calc.page,
                len |-> RingSliceLen(calc.min_size, calc.alloc, calc.page)]
    /\ UNCHANGED <<trigVars, calcOthers>>

(***************************************************************************)
(* params.rs: DeviceParameters::volts_to_code and code_to_volts, in f32    *)
(* arithmetic.  A float is its sign, an integer significand m and an       *)
(* exponent e, of value m * 2^e; every operation rounds to the 24 bits of  *)
(* an f32, to nearest, ties to even.                                       *)
(***************************************************************************)
F32_BITS == 24

RECURSIVE BitLen(_)
BitLen(n) == IF n = 0 THEN 0 ELSE 1 + BitLen(n \div 2)

RECURSIVE OddPart(_)
OddPart(n) == IF n = 0 \/ n % 2 = 1 THEN n ELSE OddPart(n \div 2)

RECURSIVE TwoPart(_)
TwoPart(n) == IF n = 0 \/ n % 2 = 1 THEN 0 ELSE 1 + TwoPart(n \div 2)

F32Zero == [neg |-> FALSE, m |-> 0, e |-> 0]

\* the f32 nearest to m * 2^e (plus a nonzero rest below it, if sticky)
F32Round(neg, m, e, sticky) ==
    LET n == BitLen(m) - F32_BITS
    IN  IF m = 0 THEN F32Zero
        ELSE IF n <= 0 THEN [neg |-> neg, m |-> m, e |-> e]
        ELSE LET q     == m \div (2 ^ n)
                 lower == m % (2 ^ n)
                 half  == 2 ^ (n - 1)
                 up    == \/ lower > half
                          \/ lower = half /\ (sticky \/ q % 2 = 1)
             IN  [neg |-> neg, m |-> IF up THEN q + 1 ELSE q, e |-> e + n]

\* code as f32
F32FromI8(code) ==
    [neg |-> code < 0, m |-> IF code < 0 THEN -code ELSE code, e |-> 0]

\* x / 256.0 and 256.0 * x: exact
F32Scale(x, by) == IF x.m = 0 THEN x ELSE [x EXCEPT !.e = x.e + by]

\* a * b for an a of at most 8 significant bits (an i8 scaled by a power of
\* two)
F32Mul(a, b) ==
    F32Round(a.neg # b.neg, OddPart(a.m) * b.m, a.e + TwoPart(a.m) + b.e, FALSE)

\* k more bits of the quotient of r / d, after the bits q
RECURSIVE Divide(_, _, _, _)
Divide(q, r, d, k) ==
    IF k = 0 THEN [q |-> q, r |-> r]
    ELSE LET bit == IF 2 * r >= d THEN 1 ELSE 0
         IN  Divide(2 * q + bit, 2 * r - bit * d, d, k - 1)

\* a / b for a nonzero b
F32Div(a, b) ==
    LET d == Divide(a.m \div b.m, a.m % b.m, b.m, F32_BITS + 1)
    IN  F32Round(a.neg # b.neg, d.q, a.e - b.e - (F32_BITS + 1), d.r # 0)

\* x as i8: toward zero, saturating ("Since Rust 1.45 this performs a
\* saturating cast")
F32AsI8(x) ==
    LET mag == IF x.e >= 8 THEN 256
               ELSE IF x.e >= 0 THEN x.m * (2 ^ x.e)
               ELSE IF -x.e > F32_BITS + 1 THEN 0
               ELSE x.m \div (2 ^ (-x.e))
    IN  IF x.m = 0 THEN 0
        ELSE IF x.neg THEN -Min2(mag, 128) ELSE Min2(mag, 127)

\* code as f32 / 256.0 * full_scale
CodeToVolts(full_scale, code) ==
    F32Mul(F32Scale(F32FromI8(code), -8), full_scale)

\* (256.0 * (volts / full_scale)) as i8
VoltsToCode(full_scale, volts) ==
    F32AsI8(F32Scale(F32Div(volts, full_scale), 8))

\* how far, in units of the last place, the powf of the build may be from
\* the values below
MaxUlps == 1

\* full_scale, 2.0 * 10f32.powf(-gain / 20.0), of an enabled channel: for
\* the default configuration (10X probe, X50, 30 dB, all four channels):
\* 4.2143445 V; for ChannelParameters::default() with four channels and with
\* one: 0.42143449 V and 0.37560385 V; for X1, 10 dB, -20 dB with two
\* channels: 0.84286886 V
FullScales ==
    {[neg |-> FALSE, m |-> fs[1] + ulps, e |-> fs[2]] :
        fs \in {<<8838121, -21>>, <<14140995, -25>>, <<12603174, -25>>,
                <<14140993, -24>>},
        ulps \in (-MaxUlps)..MaxUlps}

ConversionStart ==
    \E full_scale \in FullScales, code \in I8 :
        calc = [op |-> "volts", stage |-> "code", full_scale |-> full_scale,
                code |-> code]

CallCodeToVolts ==
    /\ calc.op = "volts"
    /\ calc.stage = "code"
    /\ calc' = [op |-> "volts", stage |-> "volts",
                full_scale |-> calc.full_scale, code |-> calc.code,
                volts |-> CodeToVolts(calc.full_scale, calc.code)]
    /\ UNCHANGED <<trigVars, calcOthers>>

CallVoltsToCode ==
    /\ calc.op = "volts"
    /\ calc.stage = "volts"
    /\ calc' = [op |-> "volts", stage |-> "back",
                full_scale |-> calc.full_scale, code |-> calc.code,
                volts |-> calc.volts,
                back |-> VoltsToCode(calc.full_scale, calc.volts)]
    /\ UNCHANGED <<trigVars, calcOthers>>

(***************************************************************************)
(* bin/gui/capture.rs: the iterations of trigger_and_capture in a trigger  *)
(* mode, byte by byte: the ring buffer of the active waveform, a reader    *)
(* that stores the next bytes of the source stream and may return fewer    *)
(* than requested, and the trigger run over what the first refill gave     *)
(***************************************************************************)
\* SAMPLE_COUNT, narrowed from 1000
SAMPLE_COUNT == 20

\* the iterations of the loop that are followed
MaxIterations == 2

\* the i-th byte of the source stream (i >= 1): a rising ramp, so that every
\* byte read names its place in the stream and differs from the zeroes of a
\* fresh mapping
SourceByte(i) == i % 256

\* the bytes a read of n bytes stores after `read` bytes were read before
SourceBytes(read, n) == [t \in 1..n |-> SourceByte(read + t)]

\* the trigger levels of the scenarios (no hysteresis, rising edges)
CaptureLevels == {5, 17, 40}

\* Waveform::new: a ring of at least SAMPLE_COUNT bytes, two pages here as
\* with 4096-byte pages
CaptureBuffer == RingBufferNew(SAMPLE_COUNT, GROUP, GROUP)

\* wfm_active.capture = Some((cursor, SAMPLE_COUNT))
SetCapture(c) == [c EXCEPT !.capture = [set |-> TRUE, cursor |-> c.cursor,
                                         count |-> SAMPLE_COUNT]]

CaptureStart ==
    \E level \in CaptureLevels, debug \in BOOLEAN :
        calc = [op |-> "capture", stage |-> "refill", debug |-> debug,
                level |-> level, buffer |-> CaptureBuffer,
                cursor |-> RingCursorNew(CaptureBuffer.len), available |-> 0,
                read |-> 0, first |-> 0, iteration |-> 1, short |-> FALSE,
                capture |-> [set |-> FALSE, cursor |-> RingCursorNew(1),
                             count |-> 0]]

\* set up capturing in active buffer and refill it: the reader is asked for
\* buffer.len() bytes and returns n of them, or an error
CaptureRefill ==
    /\ calc.op = "capture"
    /\ calc.stage = "refill"
    /\ \E n \in 0..calc.buffer.len, ok \in BOOLEAN :
         LET refill_by == calc.buffer.len - 0
             stored    == IF ok THEN n ELSE 0
         IN  calc' = [calc EXCEPT
                 !.stage = IF ok THEN "find" ELSE "failed",
                 !.cursor = calc.buffer.cursor,
                 !.first = calc.read,
                 !.read = calc.read + stored,
                 !.short = FALSE,
                 !.capture = [set |-> FALSE, cursor |-> RingCursorNew(1),
                              count |-> 0],
                 !.available = 0 + stored,
                 !.buffer = RingAppend(calc.buffer, refill_by,
                                SourceBytes(calc.read, stored), ok)]
    /\ UNCHANGED <<trigVars, calcOthers>>

\* find trigger point: the sampler's trigger is copied into the iteration,
\* so every iteration runs a trigger as Trigger::new left it; with enough
\* bytes after the edge the capture is accepted at once
CaptureFind ==
    /\ calc.op = "capture"
    /\ calc.stage = "find"
    /\ LET data == RingRead(calc.buffer, calc.cursor, calc.available)
           r    == Find(TriggerNew(calc.level, 0), data, "Rising")
           c    == [calc EXCEPT
                       !.cursor = RingCursorAdd(calc.cursor, r.consumed),
                       !.available = calc.available - r.consumed]
       IN  calc' = IF r.edge = "None" THEN [c EXCEPT !.stage = "none"]
                   ELSE IF c.available < SAMPLE_COUNT
                        THEN [c EXCEPT !.stage = "more"]
                        ELSE [SetCapture(c) EXCEPT !.stage = "captured"]
    /\ UNCHANGED <<trigVars, calcOthers>>

\* check if we need to capture more: the reader is asked for SAMPLE_COUNT -
\* available bytes; debug_assert!(available >= SAMPLE_COUNT) panics in a
\* build with debug assertions and is no code at all in one without
CaptureRefillMore ==
    /\ calc.op = "capture"
    /\ calc.stage = "more"
    /\ LET refill_by == SAMPLE_COUNT - calc.available
       IN  \E n \in 0..refill_by, ok \in BOOLEAN :
             LET stored == IF ok THEN n ELSE 0
                 c == [calc EXCEPT
                          !.read = calc.read + stored,
                          !.short = stored < refill_by,
                          !.available = calc.available + stored,
                          !.buffer = RingAppend(calc.buffer, refill_by,
                                         SourceBytes(calc.read, stored), ok)]
             IN  calc' = IF ~ok THEN [c EXCEPT !.stage = "failed"]
                         ELSE IF calc.debug /\ c.available < SAMPLE_COUNT
                              THEN [c EXCEPT !.stage = "panicked"]
                              ELSE [SetCapture(c) EXCEPT !.stage = "captured"]
    /\ UNCHANGED <<trigVars, calcOthers>>

\* no capture: the loop runs again on the same waveform
CaptureAgain ==
    /\ calc.op = "capture"
    /\ calc.stage = "none"
    /\ calc.iteration < MaxIterations
    /\ calc' = [calc EXCEPT !.stage = "refill",
                            !.iteration = calc.iteration + 1]
    /\ UNCHANGED <<trigVars, calcOthers>>

(***************************************************************************)
(* lib.rs: Error and its conversions to and from std::io::Error, on the    *)
(* way of a transport error from the driver through Streamer::read (an     *)
(* io::Result) to the sampler (a crate Result)                             *)
(***************************************************************************)
\* the OS error codes of the scenarios
MaxErrno == 20

\* std::io::Error::last_os_error()
OsError(code) == [type |-> "io", repr |-> "Os", code |-> code]

\* std::io::Error::new(kind, error)
IoErrorNew(kind, error) ==
    [type |-> "io", repr |-> "Custom", kind |-> kind, inner |-> error]

\* an error that is neither a crate Error nor an io::Error
ForeignError(msg) == [type |-> "foreign", msg |-> msg]

ErrorNotFound == [type |-> "Error", variant |-> "NotFound"]

ErrorXdma(error) == [type |-> "Error", variant |-> "Xdma", inner |-> error]

ErrorOther(error) == [type |-> "Error", variant |-> "Other", inner |-> error]

\* io::Error::downcast::<E>(): Ok with the custom boxed error if it is of
\* type E, Err with the io::Error itself otherwise
IoDowncast(error, type) ==
    IF error.repr = "Custom" /\ error.inner.type = type
    THEN [ok |-> TRUE, val |-> error.inner]
    ELSE [ok |-> FALSE, val |-> error]

\* impl From<std::io::Error> for Error
ErrorFromIo(error) ==
    IF IoDowncast(error, "Error").ok THEN IoDowncast(error, "Error").val
    ELSE ErrorOther(error)

\* impl From<Error> for std::io::Error (Error::Vmap, whose conversion is the
\* vmap crate's, is not among the values)
IoFromError(error) ==
    CASE error.variant = "NotFound" -> IoErrorNew("NotFound", error)
      [] error.variant = "Xdma" -> error.inner
      [] error.variant = "Other" ->
           IF error.inner.type = "io" THEN error.inner
           ELSE IoErrorNew("Other", error.inner)

\* the errors a call under Streamer::read can return
DriverErrors ==
    {ErrorNotFound}
    \cup {ErrorXdma(OsError(code)) : code \in 1..MaxErrno}
    \cup {ErrorOther(OsError(code)) : code \in 1..MaxErrno}
    \cup {ErrorOther(ForeignError(msg)) : msg \in {"a", "b"}}
    \cup {ErrorOther(IoErrorNew("Other", ForeignError("a")))}

\* at: which call of Streamer::read fails
ErrorStart ==
    \E error \in DriverErrors, at \in {"read_status", "read_dma"} :
        calc = [op |-> "error", at |-> at, error |-> error, stage |-> "driver"]

\* self.device.read_status()? / self.device.driver.read_dma(..)? in
\* Streamer::read, which returns std::io::Result
StreamerReturnsErr ==
    /\ calc.op = "error"
    /\ calc.stage = "driver"
    /\ calc' = [op |-> "error", at |-> calc.at, error |-> calc.error,
                stage |-> "reader", io |-> IoFromError(calc.error)]
    /\ UNCHANGED <<trigVars, calcOthers>>

\* wfm_active.buffer.append(refill_by, |slice| reader.read(slice))? in
\* trigger_and_capture, which returns the crate's Result
SamplerReturnsErr ==
    /\ calc.op = "error"
    /\ calc.stage = "reader"
    /\ calc' = [op |-> "error", at |-> calc.at, error |-> calc.error,
                stage |-> "sampler", io |-> calc.io,
                returned |-> ErrorFromIo(calc.io)]
    /\ UNCHANGED <<trigVars, calcOthers>>

(***************************************************************************)
(* device.rs: write_i2c / write_spi and write_fifo, one register access a  *)
(* step; the ISR values read back are the hardware's choice                *)
(***************************************************************************)
\* the transactions issued on one Device, one after the other
MaxPackets == 2

\* the ISR reads of one write_fifo that show neither TC nor TPOE
MaxPolls == 2

\* the register accesses that return Err
MaxFifoErrors == 1

\* write_i2c: 0xff selects I2C, then the address, then the data
I2cPacket(i2c_addr, data) == <<255, i2c_addr>> \o data

\* write_spi: 0xfd - spi_bus selects the bus, then the data
SpiPacket(spi_bus, data) == <<253 - spi_bus>> \o data

PacketOf(tx) ==
    IF tx.bus = "i2c" THEN I2cPacket(tx.addr, tx.data)
    ELSE SpiPacket(tx.addr, tx.data)

\* the packet length as the number of bytes
FifoLengthBytes(n) == n

\* the value written to the transmit length register: data.len() as u32 * 4
\* (no packet is long enough for the product to leave u32)
FifoLength(n) == n * 4

\* the flags of FifoIsr that write_fifo looks at
IsrValues == SUBSET {"TC", "TPOE"}

\* the loop of write_fifo looking at TC before the assertion
IsrOutcomeTcFirst(isr) ==
    IF "TC" \in isr THEN "done"
    ELSE IF "TPOE" \in isr THEN "panic"
    ELSE "poll"

\* one turn of the loop of write_fifo on the ISR value read: the assertion
\* on TPOE, then the break on TC
IsrOutcome(isr) ==
    IF "TPOE" \in isr THEN "panic"
    ELSE IF "TC" \in isr THEN "done"
    ELSE "poll"

\* the data bytes of the transactions
FifoBytes == {0, 165}

\* write_digipot_input (I2C address 0b0101100, two bytes) and
\* write_pga_command (SPI bus 2, command byte 0 and two bytes)
Transactions ==
    {[bus |-> "i2c", addr |-> 44, data |-> <<hi, lo>>] : hi, lo \in FifoBytes}
    \cup {[bus |-> "spi", addr |-> 2, data |-> <<0, hi, lo>>] : hi, lo \in FifoBytes}

NoFifo ==
    [queue |-> <<>>, k |-> 0, pc |-> "idle", packet |-> <<>>, i |-> 0,
     polls |-> 0, log |-> <<>>, results |-> <<>>, errors |-> 0,
     isr |-> {}, pending |-> FALSE]

FifoIdle == fifo = NoFifo

FifoStart ==
    \E n \in 1..MaxPackets : \E queue \in [1..n -> Transactions] :
        fifo = [NoFifo EXCEPT !.queue = queue]

fifoOthers == <<trigVars, ringVars, strmVars, smpVars, devVars, feed, calc>>

\* one access of a register of the FIFO by write_user_u32 / read_user_u32
Access(op, reg, value) == [pkt |-> fifo.k, op |-> op, reg |-> reg, value |-> value]

\* write_i2c / write_spi builds the packet and enters write_fifo
FifoBegin ==
    /\ fifo.pc = "idle"
    /\ fifo.k < Len(fifo.queue)
    /\ fifo' = [fifo EXCEPT !.k = fifo.k + 1,
                            !.packet = PacketOf(fifo.queue[fifo.k + 1]),
                            !.i = 0, !.polls = 0, !.pc = "tdfd"]
    /\ UNCHANGED fifoOthers

\* for &byte in data { write_user_u32(ADDR_FIFO_TDFD, byte as u32)? }
FifoWriteByte ==
    /\ fifo.pc = "tdfd"
    /\ fifo.i < Len(fifo.packet)
    /\ fifo' = [fifo EXCEPT
                   !.log = Append(fifo.log,
                                  Access("write", "TDFD", fifo.packet[fifo.i + 1])),
                   !.i = fifo.i + 1,
                   !.pc = IF fifo.i + 1 = Len(fifo.packet) THEN "tlr" ELSE "tdfd"]
    /\ UNCHANGED fifoOthers

\* write_user_u32(ADDR_FIFO_TLR, data.len() as u32 * 4)?
FifoWriteLength ==
    /\ fifo.pc = "tlr"
    /\ fifo' = [fifo EXCEPT
                   !.log = Append(fifo.log,
                                  Access("write", "TLR", FifoLength(Len(fifo.packet)))),
                   !.pending = TRUE,
                   !.pc = "isr"]
    /\ UNCHANGED fifoOthers

\* the ISR after the host wrote these bits to it: a written 1 clears the flag
\* ("clear transmit complete flag")
IsrAfterWrite(isr, written) == isr \ written

\* write_user_u32(ADDR_FIFO_ISR, FifoIsr::TC.bits())?
FifoClearTc ==
    /\ fifo.pc = "isr"
    /\ fifo' = [fifo EXCEPT
                   !.log = Append(fifo.log, Access("write", "ISR", {"TC"})),
                   !.isr = IsrAfterWrite(fifo.isr, {"TC"}),
                   !.pc = "poll"]
    /\ UNCHANGED fifoOthers

\* one turn of the loop: read the ISR, panic on TPOE, return Ok(()) on TC
FifoPoll ==
    /\ fifo.pc = "poll"
    /\ fifo.polls < MaxPolls
    /\ \E isr \in IsrValues :
          LET outcome == IsrOutcome(isr)
              log == Append(fifo.log, Access("read", "ISR", isr))
          IN  fifo' = [fifo EXCEPT
                          !.log = log,
                          !.polls = IF outcome = "poll" THEN fifo.polls + 1
                                    ELSE fifo.polls,
                          !.pc = CASE outcome = "panic" -> "panicked"
                                   [] outcome = "done" -> "idle"
                                   [] OTHER -> "poll",
                          !.results = IF outcome = "done"
                                      THEN Append(fifo.results, "Ok")
                                      ELSE fifo.results]
    /\ UNCHANGED fifoOthers

\* the FIFO has transmitted the packet whose length was written: it sets TC,
\* once
HwTransmit ==
    /\ fifo.pending
    /\ fifo' = [fifo EXCEPT !.pending = FALSE, !.isr = fifo.isr \cup {"TC"}]
    /\ UNCHANGED fifoOthers

\* one turn of the loop, reading the ISR the hardware holds; the reads after
\* the first MaxPolls are not logged
FifoPollHw ==
    /\ fifo.pc = "poll"
    /\ LET outcome == IsrOutcome(fifo.isr)
       IN  fifo' = [fifo EXCEPT
                       !.log = IF fifo.polls < MaxPolls
                               THEN Append(fifo.log, Access("read", "ISR", fifo.isr))
                               ELSE fifo.log,
                       !.polls = IF outcome = "poll"
                                 THEN Min2(fifo.polls + 1, MaxPolls)
                                 ELSE fifo.polls,
                       !.pc = CASE outcome = "panic" -> "panicked"
                                [] outcome = "done" -> "idle"
                                [] OTHER -> "poll",
                       !.results = IF outcome = "done"
                                   THEN Append(fifo.results, "Ok")
                                   ELSE fifo.results]
    /\ UNCHANGED fifoOthers

\* write_user_u32 / read_user_u32 returns Err, and `?` returns it from
\* write_fifo and from write_i2c / write_spi
FifoFails ==
    /\ fifo.pc \in {"tdfd", "tlr", "isr", "poll"}
    /\ fifo.errors < MaxFifoErrors
    /\ fifo' = [fifo EXCEPT !.pc = "idle", !.errors = fifo.errors + 1,
                            !.results = Append(fifo.results, "Err")]
    /\ UNCHANGED fifoOthers

(***************************************************************************)
(* Specifications: one per component, the others left idle                 *)
(***************************************************************************)
TrigInit == TrigStart /\ RingIdle /\ StrmIdle /\ SmpIdle /\ DevIdle /\ FeedIdle /\ CalcIdle /\ FifoIdle

TrigNext == TrigPrime \/ TrigFind

SpecTrigger == TrigInit /\ [][TrigNext]_vars

FeedInit == FeedStart /\ RingIdle /\ StrmIdle /\ SmpIdle /\ DevIdle /\ CalcIdle /\ FifoIdle

FeedNext == FeedFirst \/ FeedRest

SpecFeed == FeedInit /\ [][FeedNext]_vars

ThresholdInit == ThresholdStart /\ RingIdle /\ StrmIdle /\ SmpIdle /\ DevIdle /\ FeedIdle /\ FifoIdle

ThresholdNext == CallTriggerNew \/ CallPrime \/ CallFindBlock

SpecThreshold == ThresholdInit /\ [][ThresholdNext]_vars

RingCallInit ==
    RingCallStart /\ TrigIdle /\ RingIdle /\ StrmIdle /\ SmpIdle /\ DevIdle /\ FeedIdle /\ FifoIdle

RingCallNext ==
    CallCursorAdd \/ CallCursorSub \/ CallIndexRange \/ CallRingSliceNew

SpecRingCall == RingCallInit /\ [][RingCallNext]_vars

ConversionInit ==
    ConversionStart /\ TrigIdle /\ RingIdle /\ StrmIdle /\ SmpIdle /\ DevIdle /\ FeedIdle /\ FifoIdle

ConversionNext == CallCodeToVolts \/ CallVoltsToCode

SpecConversion == ConversionInit /\ [][ConversionNext]_vars

CaptureInit ==
    CaptureStart /\ TrigIdle /\ RingIdle /\ StrmIdle /\ SmpIdle /\ DevIdle /\ FeedIdle /\ FifoIdle

CaptureNext ==
    \/ CaptureRefill
    \/ CaptureFind
    \/ CaptureRefillMore
    \/ CaptureAgain

SpecCapture == CaptureInit /\ [][CaptureNext]_vars

ErrorInit ==
    ErrorStart /\ TrigIdle /\ RingIdle /\ StrmIdle /\ SmpIdle /\ DevIdle /\ FeedIdle /\ FifoIdle

ErrorNext == StreamerReturnsErr \/ SamplerReturnsErr

SpecError == ErrorInit /\ [][ErrorNext]_vars

FifoInit ==
    FifoStart /\ TrigIdle /\ RingIdle /\ StrmIdle /\ SmpIdle /\ DevIdle /\ FeedIdle /\ CalcIdle

FifoNext ==
    \/ FifoBegin
    \/ FifoWriteByte
    \/ FifoWriteLength
    \/ FifoClearTc
    \/ FifoPoll
    \/ FifoFails

SpecFifo == FifoInit /\ [][FifoNext]_vars

\* the transactions against a FIFO that transmits every packet: the host
\* keeps running and the hardware keeps transmitting
TransmitNext ==
    \/ FifoBegin
    \/ FifoWriteByte
    \/ FifoWriteLength
    \/ FifoClearTc
    \/ FifoPollHw
    \/ HwTransmit

SpecTransmit ==
    /\ FifoInit
    /\ [][TransmitNext]_vars
    /\ WF_vars(FifoBegin) /\ WF_vars(FifoWriteByte) /\ WF_vars(FifoWriteLength)
    /\ WF_vars(FifoClearTc) /\ WF_vars(FifoPollHw) /\ WF_vars(HwTransmit)

\* a Streamer borrows the Device for as long as it lives, so a Device either
\* streams or issues transactions
FailureInit ==
    /\ (StrmStart /\ FifoIdle) \/ (StrmAbsent /\ FifoStart)
    /\ TrigIdle /\ RingIdle /\ SmpIdle /\ DevIdle /\ FeedIdle /\ CalcIdle

FailureNext ==
    \/ DevWritePage
    \/ DevFault
    \/ ReadCall
    \/ ReadStatus
    \/ ReadData
    \/ ReadFails
    \/ FifoBegin
    \/ FifoWriteByte
    \/ FifoWriteLength
    \/ FifoClearTc
    \/ FifoPoll
    \/ FifoFails

SpecFailure == FailureInit /\ [][FailureNext]_vars

RingInit == RingStart /\ TrigIdle /\ StrmIdle /\ SmpIdle /\ DevIdle /\ FeedIdle /\ CalcIdle /\ FifoIdle

RingNext == DoAppend \/ DoRead

SpecRing == RingInit /\ [][RingNext]_vars

StrmInit == StrmStart /\ TrigIdle /\ RingIdle /\ SmpIdle /\ DevIdle /\ FeedIdle /\ CalcIdle /\ FifoIdle

StrmNext ==
    \/ DevWritePage
    \/ DevFault
    \/ ReadCall
    \/ ReadStatus
    \/ ReadData
    \/ ReadFails

SpecStreamer == StrmInit /\ [][StrmNext]_vars

SmpInit == SmpStart /\ TrigIdle /\ RingIdle /\ StrmIdle /\ DevIdle /\ FeedIdle /\ CalcIdle /\ FifoIdle

SmpNext ==
    \/ SamplerPrime
    \/ SamplerPollParams
    \/ SamplerPollWaveform
    \/ SamplerCapture
    \/ SamplerSubmit
    \/ SamplerShutdown
    \/ RendererPoll
    \/ RendererPollDisconnected
    \/ RendererDrop
    \/ ControlSend

SpecSampler == SmpInit /\ [][SmpNext]_vars

\* the pipeline with both threads scheduled: the sampler thread keeps running
\* its loop and the consumer keeps polling
SpecPipeline ==
    /\ SmpInit
    /\ [][SmpNext]_vars
    /\ WF_vars(SamplerStep)
    /\ WF_vars(RendererPoll)

DevInit == DeviceStart /\ TrigIdle /\ RingIdle /\ StrmIdle /\ SmpIdle /\ FeedIdle /\ CalcIdle /\ FifoIdle

DevNext == DevStartup \/ DevConfigure \/ DevShutdown

SpecDevice == DevInit /\ [][DevNext]_vars

SeqInit ==
    SeqStart /\ TrigIdle /\ RingIdle /\ StrmIdle /\ SmpIdle /\ FeedIdle /\ CalcIdle /\ FifoIdle

SeqNext == SeqStartup \/ SeqConfigure \/ SeqShutdown

SpecSequence == SeqInit /\ [][SeqNext]_vars

(***************************************************************************)
(* Properties of the trigger                                               *)
(***************************************************************************)
\* 1-based positions of the samples of the last call strictly above above_thr
\* and strictly below below_thr
UpCrossings == {i \in 1..Len(call.data) : call.data[i] > trig.above}

DownCrossings == {i \in 1..Len(call.data) : call.data[i] < trig.below}

\* the number of samples of the last call that lie in whole groups
WholeGroups == GROUP * (Len(call.data) \div GROUP)

\* C2: from Below (Above), when the first sample strictly above above_thr
\* (strictly below below_thr) is at index k within the whole groups of the
\* input and the filter admits Rising (Falling), find returns (k, Rising)
\* ((k, Falling)) and the state becomes Above (Below).
C2_EdgeAtFirstCrossing ==
    call.n = 1 =>
        /\ ( /\ call.before = "Below"
             /\ call.filter \in {"Rising", "Both"}
             /\ UpCrossings # {}
             /\ SetMin(UpCrossings) - 1 < WholeGroups )
           => /\ call.consumed = SetMin(UpCrossings) - 1
              /\ call.edge = "Rising"
              /\ trig.state = "Above"
        /\ ( /\ call.before = "Above"
             /\ call.filter \in {"Falling", "Both"}
             /\ DownCrossings # {}
             /\ SetMin(DownCrossings) - 1 < WholeGroups )
           => /\ call.consumed = SetMin(DownCrossings) - 1
              /\ call.edge = "Falling"
              /\ trig.state = "Below"

\* C2 witness: a rising edge found in the third group after negative samples
C2_Witness ==
    /\ call.n = 1
    /\ call.before = "Below"
    /\ call.filter = "Rising"
    /\ call.edge = "Rising"
    /\ call.consumed >= 2 * GROUP
    /\ call.data[1] < 0

\* what C9 says find returns after an excluded crossing at 0-based index k:
\* (k + 16 * floor((len - k) / 16), None)
ExcludedResult(k) == k + GROUP * ((Len(call.data) - k) \div GROUP)

\* C9 as stated: primed Below, filter Falling, data crossing above above_thr
\* at index k (anywhere in the input) and never below below_thr afterwards:
\* find returns (k + 16 * floor((len - k) / 16), None) and the state is Above
\* (symmetrically for Above and Rising).
C9_AsStated ==
    call.n = 1 =>
        /\ ( /\ call.before = "Below"
             /\ call.filter = "Falling"
             /\ UpCrossings # {}
             /\ \A i \in DownCrossings : i < SetMin(UpCrossings) )
           => /\ call.consumed = ExcludedResult(SetMin(UpCrossings) - 1)
              /\ call.edge = "None"
              /\ trig.state = "Above"
        /\ ( /\ call.before = "Above"
             /\ call.filter = "Rising"
             /\ DownCrossings # {}
             /\ \A i \in UpCrossings : i < SetMin(DownCrossings) )
           => /\ call.consumed = ExcludedResult(SetMin(DownCrossings) - 1)
              /\ call.edge = "None"
              /\ trig.state = "Below"

\* C9 amended: the same, for a crossing at an index k that lies within the
\* whole 16-sample groups of the input (k < 16 * floor(len / 16)).
C9_ExcludedEdgeContinues ==
    call.n = 1 =>
        /\ ( /\ call.before = "Below"
             /\ call.filter = "Falling"
             /\ UpCrossings # {}
             /\ SetMin(UpCrossings) - 1 < WholeGroups
             /\ \A i \in DownCrossings : i < SetMin(UpCrossings) )
           => /\ call.consumed = ExcludedResult(SetMin(UpCrossings) - 1)
              /\ call.edge = "None"
              /\ trig.state = "Above"
        /\ ( /\ call.before = "Above"
             /\ call.filter = "Rising"
             /\ DownCrossings # {}
             /\ SetMin(DownCrossings) - 1 < WholeGroups
             /\ \A i \in UpCrossings : i < SetMin(DownCrossings) )
           => /\ call.consumed = ExcludedResult(SetMin(DownCrossings) - 1)
              /\ call.edge = "None"
              /\ trig.state = "Below"

\* C9 witness: an excluded rising crossing at k > 0 after which a further
\* whole group was scanned in state Above
C9_Witness ==
    /\ call.n = 1
    /\ call.before = "Below"
    /\ call.filter = "Falling"
    /\ UpCrossings # {}
    /\ SetMin(UpCrossings) > 1
    /\ SetMin(UpCrossings) - 1 < WholeGroups
    /\ DownCrossings = {}
    /\ call.edge = "None"
    /\ trig.state = "Above"
    /\ call.consumed >= SetMin(UpCrossings) - 1 + GROUP

\* the state and the rest of the scan that C10 expects after the first
\* sample of a Fresh trigger: the comparison is against level
AfterFirstSample ==
    Find([trig EXCEPT !.state =
              IF call.data[1] < trig.level THEN "Below" ELSE "Above"],
         Tail(call.data), call.filter)

\* C10: a scan on a Fresh trigger with non-empty input consumes the first
\* sample, takes state Below if that sample < level and Above otherwise, and
\* goes on from that state with the second sample (so no edge is reported at
\* index 0); with empty input it returns (0, None) and stays Fresh.
C10_FreshFirstSample ==
    (call.n = 1 /\ call.before = "Fresh") =>
        IF Len(call.data) = 0
        THEN call.consumed = 0 /\ call.edge = "None" /\ trig.state = "Fresh"
        ELSE /\ call.consumed >= 1
             /\ call.consumed = 1 + AfterFirstSample.consumed
             /\ call.edge = AfterFirstSample.edge
             /\ trig.state = AfterFirstSample.trig.state
             /\ Len(call.data) = 1 =>
                    /\ call.consumed = 1
                    /\ call.edge = "None"
                    /\ trig.state = IF call.data[1] < trig.level
                                     THEN "Below" ELSE "Above"

\* C10 witness: a Fresh trigger given one sample equal to level, inside the
\* hysteresis band, went to Above
C10_Witness ==
    /\ call.n = 1
    /\ call.before = "Fresh"
    /\ Len(call.data) = 1
    /\ call.data[1] = trig.level
    /\ call.data[1] < trig.above
    /\ trig.state = "Above"

\* C11: when the scan returns None at most 15 samples of its input are left
\* unconsumed; a trigger that is not Fresh and is given fewer than 16 samples
\* consumes none of them and keeps its state, whatever their values.
C11_TrailingSamplesLeft ==
    (call.n = 1 /\ call.edge = "None") =>
        /\ Len(call.data) - call.consumed <= GROUP - 1
        /\ (call.before # "Fresh" /\ Len(call.data) < GROUP) =>
              /\ call.consumed = 0
              /\ trig.state = call.before

\* C11 witness: a primed trigger was given a short input that holds a sample
\* beyond its threshold, and returned (0, None)
C11_Witness ==
    /\ call.n = 1
    /\ call.edge = "None"
    /\ call.consumed = 0
    /\ Len(call.data) \in 1..(GROUP - 1)
    /\ \/ call.before = "Below" /\ UpCrossings # {}
       \/ call.before = "Above" /\ DownCrossings # {}

\* the last call's samples all have one value, and it lies in the dead zone:
\* neither strictly above above_thr nor strictly below below_thr
AllEqualInDeadZone ==
    /\ call.n = 1
    /\ Len(call.data) >= 1
    /\ \A i \in 1..Len(call.data) : call.data[i] = call.data[1]
    /\ call.data[1] <= trig.above
    /\ call.data[1] >= trig.below

\* C14 as stated: from any state, Fresh included, such a scan returns None
\* and leaves the state unchanged
C14_AsStated ==
    AllEqualInDeadZone => (call.edge = "None" /\ trig.state = call.before)

\* C14: scanning an all-equal input in the dead zone returns None; a trigger
\* in state Below or Above keeps its state, and a Fresh trigger leaves Fresh
\* for Below when the value is below level and for Above otherwise.
C14_DeadZone ==
    AllEqualInDeadZone =>
        /\ call.edge = "None"
        /\ call.before # "Fresh" => trig.state = call.before
        /\ call.before = "Fresh" =>
              trig.state = IF call.data[1] < trig.level THEN "Below" ELSE "Above"

\* C14 witness: a primed trigger scanned whole groups of samples equal to
\* the threshold it waits to see crossed
C14_Witness ==
    /\ AllEqualInDeadZone
    /\ Len(call.data) >= GROUP
    /\ call.consumed >= GROUP
    /\ trig.below < trig.above
    /\ \/ call.before = "Below" /\ call.data[1] = trig.above
       \/ call.before = "Above" /\ call.data[1] = trig.below

C13_AsStated ==
    \A i \in 1..(Len(feed.edges) - 1) : feed.edges[i] # feed.edges[i + 1]

\* C13: when every call uses the filter Both, the edges reported by
\* successive calls alternate strictly between Rising and Falling; when
\* every call uses Rising (Falling), every reported edge is Rising (Falling).
C13_EdgesAlternate ==
    /\ feed.filter = "Both" =>
          \A i \in 1..(Len(feed.edges) - 1) : feed.edges[i] # feed.edges[i + 1]
    /\ feed.filter # "Both" =>
          \A i \in 1..Len(feed.edges) : feed.edges[i] = feed.filter

\* C13 witness: three edges were reported to calls that all used Both
C13_Witness ==
    /\ feed.filter = "Both"
    /\ Len(feed.edges) = 3


(***************************************************************************)
(* Properties of the ring buffer                                           *)
(***************************************************************************)
\* C8: read(cursor at index i, n) returns the bytes most recently written
\* through append to ring positions i, i+1, ..., i+n-1 (mod L), in order, as
\* i8 samples.
C8_ReadReturnsLastWritten ==
    ringRead.n >= 0 =>
        /\ Len(ringRead.samples) = ringRead.n
        /\ \A t \in 0..(ringRead.n - 1) :
              ringRead.samples[t + 1] =
                  CastI8(ringLast[(ringRead.index + t) % ring.len])

\* C8 witness: a read that starts near the end of the ring, straddles the
\* seam and returns appended bytes on both sides of it
C8_Witness ==
    /\ ringRead.n >= 2
    /\ ringRead.index + ringRead.n > ring.len
    /\ ringRead.samples[1] # 0
    /\ ringRead.samples[ringRead.n] # 0
    /\ ringRead.samples[1] # ringRead.samples[ringRead.n]


(***************************************************************************)
(* Properties of the streamer                                              *)
(***************************************************************************)
\* C1: as long as the reader never lagged the data mover by MEMORY_SIZE bytes
\* or more, the bytes returned by the reads so far are the bytes of S from
\* the latched head on, in order, none duplicated and none skipped.
C1_StreamIsPrefix ==
    ~strmOut.lagged =>
        \A i \in 1..Len(strmOut.bytes) :
            strmOut.bytes[i] = strmOut.latched + i - 1

\* the same for the reads that follow calls that all returned Ok, or that
\* failed before they had copied anything
C1_PrefixWhileNothingLost ==
    (~strmOut.lagged /\ strmOut.lost = 0) =>
        \A i \in 1..Len(strmOut.bytes) :
            strmOut.bytes[i] = strmOut.latched + i - 1

\* without ever lagging a full turn, the reads have returned bytes from both
\* sides of the wrap of the write head
C1_WrapIsRead ==
    /\ ~strmOut.lagged
    /\ strmOut.lost = 0
    /\ strmOut.latched >= 0
    /\ strmOut.latched < MEMORY_SIZE
    /\ strmOut.latched + Len(strmOut.bytes) > MEMORY_SIZE + 1

\* the first read call on the Streamer is in progress
InFirstCall == strm.calls = 1 /\ strm.pc \in {"loop", "dma"}

\* the bytes the data mover wrote since the head was latched
WrittenSinceLatch == dev.pages * 2 ^ PageBits - strmOut.latched

\* C21 as stated: the first read call on a new Streamer only latches the
\* head: it issues no read_dma and returns 0 bytes, whatever the device
\* writes while the call is in progress
C21_AsStated ==
    /\ InFirstCall => (strm.pc # "dma" /\ strm.written = 0)
    /\ strmOut.first.kind = "Ok" => strmOut.first.n = 0

\* C21: the first turn of the first read call on a new Streamer latches the
\* device's write head and copies nothing; the call then goes on, and the
\* bytes it reads and returns are the bytes the device wrote after the latch
\* (while the reader lags less than MEMORY_SIZE), at most as many as those
\* and none when the device wrote nothing since
C21_FirstCallLatches ==
    /\ (InFirstCall /\ strm.cursor = NoCursor) =>
            (strm.pc = "loop" /\ strm.written = 0 /\ strmOut.latched < 0)
    /\ (InFirstCall /\ strm.cursor # NoCursor) =>
            /\ strmOut.latched >= 0
            /\ strm.written <= WrittenSinceLatch
            /\ strm.pc = "dma" => WrittenSinceLatch > 0
            /\ ~strmOut.lagged =>
                  \A i \in 1..Len(strm.chunk) :
                      strm.chunk[i] = strmOut.latched + i - 1
    /\ strmOut.first.kind = "Ok" =>
            /\ strmOut.latched >= 0
            /\ strmOut.first.n <= WrittenSinceLatch
            /\ (strmOut.lost = 0 /\ ~strmOut.lagged) =>
                  \A i \in 1..strmOut.first.n :
                      strmOut.bytes[i] = strmOut.latched + i - 1

\* the first call latched a head the device had moved, and returned 0 bytes
C21_Witness ==
    /\ strmOut.first = [kind |-> "Ok", n |-> 0]
    /\ strmOut.latched > 0
    /\ strm.calls = 1
    /\ strm.pc = "idle"
    /\ strmOut.errors = 0


(***************************************************************************)
(* Properties of the sampler pipeline                                      *)
(***************************************************************************)
\* the number of places that hold waveform w
Holders(w) ==
    (IF smp.active = w THEN 1 ELSE 0)
    + (IF smp.standby = w THEN 1 ELSE 0)
    + (IF rend.current = w THEN 1 ELSE 0)
    + Cardinality({i \in 1..Len(chan.toSampler) : chan.toSampler[i] = w})
    + Cardinality({i \in 1..Len(chan.toRenderer) : chan.toRenderer[i] = w})

\* C3: while the sampler runs (and the consumer lives), every waveform of the
\* pool is held by exactly one of the active slot, the standby slot, the two
\* channels and the consumer.
C3_PoolConserved ==
    (~SamplerGone(smp) /\ rend.alive) => \A w \in Pool : Holders(w) = 1

\* C4: (a) a waveform is appended to the sampler-to-consumer channel only by
\* a submit step whose active waveform holds a capture while a standby is
\* held, and that standby becomes the active waveform; (b) a submit step with
\* a capture and no standby sends nothing, keeps the active waveform and
\* clears its capture slot.
C4_SubmitOrDiscard ==
    [][ /\ Len(chan'.toRenderer) > Len(chan.toRenderer) =>
              /\ smp.pc = "submit"
              /\ wfm[smp.active].capture
              /\ smp.standby # NoWfm
              /\ chan'.toRenderer = Append(chan.toRenderer, smp.active)
              /\ smp'.active = smp.standby
              /\ smp'.standby = NoWfm
        /\ ( /\ smp.pc = "submit"
             /\ smp' # smp
             /\ wfm[smp.active].capture
             /\ smp.standby = NoWfm ) =>
              /\ chan'.toRenderer = chan.toRenderer
              /\ smp'.active = smp.active
              /\ ~wfm'[smp.active].capture
      ]_vars

\* C4 witness: the sampler has both submitted a capture and discarded one
C4_Witness == smpHist.sent /\ smpHist.discarded

\* C5: once primed, the sampler never waits: at every place of its loop its
\* next step can be taken, whatever the channels hold and whatever the
\* consumer and the control thread have done.
C5_NeverWaits == InLoop(smp) => ENABLED SamplerStep

\* C5 witness: the sampler is polling for a standby while the consumer, alive,
\* has taken nothing and returned nothing, and no waveform is queued for it
C5_Witness ==
    /\ smp.pc = "standby"
    /\ rend.alive
    /\ rend.current = NoWfm
    /\ chan.toSampler = <<>>
    /\ chan.toRenderer # <<>>

\* C28 as stated: the sampler-to-consumer channel never holds more than one
\* submitted waveform that the consumer has not yet received
C28_AsStated == Len(chan.toRenderer) <= 1

\* C28 amended: the sampler submits its active waveform only when it holds a
\* standby to continue with, so inside its loop it always holds an active
\* waveform and the sampler-to-consumer channel holds at most all but one
\* of the pool (3 of 4), which it does hold when the consumer is slow
C28_AllButOneInFlight ==
    /\ Len(chan.toRenderer) <= PoolSize - 1
    /\ InLoop(smp) => smp.active # NoWfm
    /\ \A i, j \in 1..Len(chan.toRenderer) :
          chan.toRenderer[i] = chan.toRenderer[j] => i = j

\* C28 witness: the consumer, alive, has received nothing yet and all but
\* one waveform of the pool are queued for it
C28_Witness ==
    /\ rend.alive
    /\ rend.current = NoWfm
    /\ Len(chan.toRenderer) = PoolSize - 1
    /\ smp.active # NoWfm

\* C29: when the consumer drops both of its channel ends, at any moment, in
\* any mode and with any number of waveforms still queued toward the
\* sampler, the sampler thread leaves its loop with Ok(()) without
\* panicking, and then calls device.shutdown()
C29_CleanExit ==
    ~rend.alive =>
        /\ smp.pc # "panicked"
        /\ smp.pc = "ended" => smpHist.shutdown

\* C30: after the sampler receives a Parameters value with mode
\* SingleTrigger it sends at most one waveform forward before the next
\* Parameters value is received: the mode becomes Idle and the trigger is
\* dropped in the iteration that sends the waveform, and the mode stays
\* SingleTrigger, still armed, through every iteration whose capture was
\* discarded for lack of a standby
SingleTriggerSteps ==
    (smp.pc = "submit" /\ smp' # smp /\ smp.mode = "SingleTrigger") =>
        /\ Len(chan'.toRenderer) > Len(chan.toRenderer) =>
              smp'.mode = "Idle" /\ ~smp'.trigger
        /\ (wfm[smp.active].capture /\ smp.standby = NoWfm) =>
              /\ smp'.mode = "SingleTrigger" /\ smp'.trigger
              /\ chan'.toRenderer = chan.toRenderer

SingleTriggerSendsOnce ==
    smpHist.received = "SingleTrigger" =>
        /\ smpHist.sentSince <= 1
        /\ smp.mode = (IF smpHist.sentSince = 0 THEN "SingleTrigger" ELSE "Idle")
        /\ smp.trigger = (smpHist.sentSince = 0)

C30_SingleTrigger == [][SingleTriggerSteps]_vars /\ []SingleTriggerSendsOnce

\* C30 witness: armed by SingleTrigger, the sampler has discarded a capture
\* for lack of a standby, then sent one waveform, and has gone through
\* another iteration since
C30_Witness ==
    /\ smpHist.received = "SingleTrigger"
    /\ smpHist.discarded
    /\ smpHist.sentSince = 1
    /\ smp.pc = "submit"
    /\ smp.standby # NoWfm

\* C37: whenever the sampler thread running on hardware finishes after a
\* successful startup, through channel disconnect, a reader error or a
\* failed reconfigure, device.shutdown() has been called before it returns
C37_ShutdownBeforeReturn ==
    smp.pc \in {"ended", "failed"} => smpHist.shutdown

\* the sampler runs its loop free running for good, with its consumer alive
FreeRunningForGood ==
    <>[](InLoop(smp) /\ smp.mode = "FreeRunning" /\ chan.params = <<>>
         /\ rend.alive /\ ~rend.panicked)

\* C35: with a pool of 4 waveforms, mode FreeRunning and a consumer that
\* keeps polling and returns its previous waveform each time it receives a
\* new one, the consumer receives new waveforms infinitely often, whatever
\* happened before that mode was selected, any number of earlier loop
\* iterations in Idle mode included
C35_KeepsReceiving == FreeRunningForGood => []<><<RendererPoll>>_vars

\* C31: every waveform sent forward carries as its params snapshot the
\* Parameters value that was in effect in the sampler during the iteration
\* that read and captured its samples: the latest value received from the
\* parameters channel, whose device part is the last one passed to configure
\* before those samples were read
SentWithSnapshot ==
    Len(chan'.toRenderer) > Len(chan.toRenderer) =>
        LET w == chan'.toRenderer[Len(chan'.toRenderer)]
        IN  /\ wfm'[w].capture
            /\ wfm'[w].params.seq = smp.seq
            /\ wfm'[w].params.seq >= 1
            /\ wfm'[w].params.mode = smpHist.received
            /\ smpHist.configured = wfm'[w].params.seq

C31_ParamsSnapshot == [][SentWithSnapshot]_vars

\* C31 witness: a waveform captured under the second Parameters value
\* received, in SingleTrigger mode, is queued for the consumer after the
\* sampler downgraded its own mode to Idle, behind one captured under the
\* first value
C31_Witness ==
    /\ Len(chan.toRenderer) >= 2
    /\ wfm[chan.toRenderer[1]].params.seq = 1
    /\ wfm[chan.toRenderer[Len(chan.toRenderer)]].params =
          [mode |-> "SingleTrigger", seq |-> 2]
    /\ smp.mode = "Idle"

(***************************************************************************)
(* Properties of the device controller                                     *)
(***************************************************************************)
\* the Control register just before the i-th write of the call
CtlBefore(i) == ControlAfter(devCall.before, SubSeq(devLog, 1, i - 1))

\* the i-th write is a Control write that removes and inserts these bits
ControlWriteAt(i, remove, insert) ==
    /\ devLog[i].op = "control"
    /\ devLog[i].value = (CtlBefore(i) \ remove) \cup insert

\* the i-th write is a Control write that changes at most these bits
ControlChangeAt(i, bits) ==
    /\ devLog[i].op = "control"
    /\ devLog[i].value \ bits = CtlBefore(i) \ bits

AdcWriteAt(i, reg) == devLog[i].op = "adc" /\ devLog[i].reg = reg

\* the k-th write of a configure(params) whose writes start after base is
\* the one the order of configure puts there
ConfigureWriteAt(base, k, params) ==
    LET w == devLog[base + k]
    IN  CASE k \in 1..4 ->
               /\ w.op = "pga"
               /\ w.bus = <<2, 3, 4, 5>>[k]
               /\ (w.command \div 1024) % 2 = 1
          [] k \in 5..8 ->
               LET p == IF params[k - 4].some THEN params[k - 4].val
                        ELSE ChannelDefault
               IN  /\ ControlChangeAt(base + k, ChannelBits(k - 5))
                   /\ ChTermination(k - 5) \in w.value <=> p.termination = "Ohm50"
                   /\ ChCoupling(k - 5) \in w.value <=> p.coupling = "DC"
                   /\ ChAttenuator(k - 5) \in w.value <=> p.coarse_attenuation = "X1"
          [] k \in 9..16 ->
               IF k % 2 = 1 THEN w.op = "digipot"
               ELSE w.op = "trimdac" /\ w.channel = (k - 10) \div 2
          [] k = 17 -> ControlWriteAt(base + k, {"DatamoverHaltN"}, {})
          [] k = 18 -> ControlWriteAt(base + k, {"FpgaAcqResetN"}, {})
          [] k = 19 -> AdcWriteAt(base + k, "POWER") /\ w.value = 512
          [] k = 20 -> AdcWriteAt(base + k, "CHNUM_CLKDIV")
          [] k = 21 -> AdcWriteAt(base + k, "POWER") /\ w.value = 0
          [] k = 22 -> AdcWriteAt(base + k, "INSEL12")
          [] k = 23 -> AdcWriteAt(base + k, "INSEL34")
          [] k = 24 -> ControlChangeAt(base + k, {"ChannelMux0", "ChannelMux1"})
          [] k = 25 -> ControlWriteAt(base + k, {},
                                      {"DatamoverHaltN", "FpgaAcqResetN"})
          [] OTHER -> FALSE

\* C6: a successful startup() has written, in this order: Control with
\* DatamoverHaltN cleared, then with FpgaAcqResetN cleared; Control with
\* Rail3V3Enabled and ClockGenResetN set; Control with ClockGenResetN cleared,
\* then set again; 31 PLL words, then the 2 phase-align words; the 10 ADC
\* init registers, whose last POWER write powers the ADC down; Control with
\* Rail5VEnabled set; then the 25 writes of configure(default), the last of
\* which is the first to set DatamoverHaltN.
C6_StartupOrder ==
    (devCall.op = "startup" /\ devCall.result = "Ok") =>
        /\ Len(devLog) = 74
        /\ ControlWriteAt(1, {"DatamoverHaltN"}, {})
        /\ ControlWriteAt(2, {"FpgaAcqResetN"}, {})
        /\ ControlWriteAt(3, {}, {"Rail3V3Enabled", "ClockGenResetN"})
        /\ ControlWriteAt(4, {"ClockGenResetN"}, {})
        /\ ControlWriteAt(5, {}, {"ClockGenResetN"})
        /\ \A i \in 6..38 : devLog[i].op = "pll"
        /\ devLog[37] = [op |-> "pll", reg |-> 256, value |-> 2]
        /\ devLog[38] = [op |-> "pll", reg |-> 256, value |-> 66]
        /\ \A i \in 39..48 : devLog[i].op = "adc"
        /\ \E i \in 39..48 :
             /\ AdcWriteAt(i, "POWER") /\ devLog[i].value = 512
             /\ \A j \in (i + 1)..48 : devLog[j].reg # "POWER"
        /\ ControlWriteAt(49, {}, {"Rail5VEnabled"})
        /\ \A k \in 1..25 : ConfigureWriteAt(49, k, DeviceDefault)
        /\ \A i \in 1..73 :
             devLog[i].op = "control" => "DatamoverHaltN" \notin devLog[i].value
        /\ "DatamoverHaltN" \in devLog[74].value

\* C6 witness: startup() has succeeded on a device that was left running
C6_Witness ==
    /\ devCall.op = "startup"
    /\ devCall.result = "Ok"
    /\ devCall.before = RunningControl

\* C7: for every params value, the writes of configure(params) follow this
\* order as far as they go: four PGA words, each with bit 10 set; four
\* Control writes, one per channel, of its termination, coupling and
\* attenuator bits; four digipot and trim-DAC pairs; Control with
\* DatamoverHaltN cleared, then FpgaAcqResetN cleared; the ADC power-down,
\* channel count and clock divisor, power-up and input selects; Control with
\* the ChannelMux bits; Control with DatamoverHaltN and FpgaAcqResetN set.
\* A configure that returns success has issued all 25.
C7_ConfigureOrder ==
    devCall.op = "configure" =>
        /\ Len(devLog) <= 25
        /\ \A k \in 1..Len(devLog) : ConfigureWriteAt(0, k, devCall.params)
        /\ devCall.result = "Ok" => Len(devLog) = 25

\* C7 witness: configure has succeeded on a running device with a disabled
\* channel and a channel with other than default settings
C7_Witness ==
    /\ devCall.op = "configure"
    /\ devCall.result = "Ok"
    /\ "DatamoverHaltN" \in devCall.before
    /\ devCall.params[1] = SomeChannel(ChannelAlt)
    /\ \E i \in 1..4 : ~devCall.params[i].some

\* C38: during startup(), for any initial Control value (one left by an
\* unclean shutdown with both rails enabled included), Rail5VEnabled is clear
\* from startup's first Control write until the PLL and ADC initialisation
\* writes have completed (the first 48 writes); the 5 V rail is powered only
\* from the write that follows them
C38_RailOffUntilFrontend ==
    devCall.op = "startup" =>
        \A i \in 1..Min2(Len(devLog), 48) :
            devLog[i].op = "control" => "Rail5VEnabled" \notin devLog[i].value

\* C39: in any sequence of startup, configure and shutdown calls,
\* DatamoverHaltN is clear in the Control register at every ADC register
\* write, and a Control write sets DatamoverHaltN only after the ADC
\* power-down, channel count, power-up and input-select writes and the mux
\* write of the same configure call
C39_HaltedAroundAdc ==
    \A i \in 1..Len(devLog) :
        /\ devLog[i].op = "adc" => "DatamoverHaltN" \notin CtlBefore(i)
        /\ ( /\ devLog[i].op = "control"
             /\ "DatamoverHaltN" \in devLog[i].value
             /\ "DatamoverHaltN" \notin CtlBefore(i) ) =>
              /\ devCall.op \in {"startup", "configure"}
              /\ i = Len(devLog)
              /\ i >= 25
              /\ devLog[i - 1].op = "control"
              /\ AdcWriteAt(i - 2, "INSEL34")
              /\ AdcWriteAt(i - 3, "INSEL12")
              /\ AdcWriteAt(i - 4, "POWER") /\ devLog[i - 4].value = 0
              /\ AdcWriteAt(i - 5, "CHNUM_CLKDIV")
              /\ AdcWriteAt(i - 6, "POWER") /\ devLog[i - 6].value = 512
              /\ \A j \in 1..(i - 7) : devLog[j].op = "adc" => devCall.op = "startup"

\* C39 witness: configure has succeeded with two channels on a device whose
\* data mover was running
C39_Witness ==
    /\ devCall.op = "configure"
    /\ devCall.result = "Ok"
    /\ "DatamoverHaltN" \in devCall.before
    /\ Cardinality({i \in 1..4 : devCall.params[i].some}) = 2
    /\ "DatamoverHaltN" \in ctl

\* C40: configure(params) with no enabled channel never returns success; it
\* writes no ADC register, and when it panics in the ADC channel setup it has
\* written the four PGA words, the four Control writes of the channel bits,
\* the four offsets and the two Control writes that halt the data mover,
\* and nothing more, so DatamoverHaltN and FpgaAcqResetN are left clear
C40_NoChannelPanics ==
    (devCall.op = "configure" /\ \A i \in 1..4 : ~devCall.params[i].some) =>
        /\ devCall.result \in {"Err", "Panic"}
        /\ \A i \in 1..Len(devLog) : devLog[i].op # "adc"
        /\ devCall.result = "Panic" =>
              /\ Len(devLog) = 18
              /\ \A k \in 1..18 : ConfigureWriteAt(0, k, devCall.params)
              /\ ctl \cap {"DatamoverHaltN", "FpgaAcqResetN"} = {}

\* C40 witness: configure with no enabled channel has panicked on a device
\* whose data mover was running
C40_Witness ==
    /\ devCall.op = "configure"
    /\ \A i \in 1..4 : ~devCall.params[i].some
    /\ devCall.result = "Panic"
    /\ {"DatamoverHaltN", "FpgaAcqResetN"} \subseteq devCall.before

(***************************************************************************)
(* Trigger construction                                                    *)
(***************************************************************************)
Constructed == calc.op = "Trigger::new" /\ calc.done

\* C15 as stated: for every level and hysteresis, Trigger::new yields
\* below_thr <= level <= above_thr, below_thr >= -127 and above_thr <= 126
C15_AsStated ==
    Constructed =>
        /\ trig.below <= calc.level
        /\ calc.level <= trig.above
        /\ trig.below >= -127
        /\ trig.above <= 126

\* C15: for every level in [-128, 127] and hysteresis in [0, 255],
\* Trigger::new yields below_thr >= -127 and above_thr <= 126; below_thr <=
\* level holds for every level but -128, where below_thr is -127, and level
\* <= above_thr for every level but 127, where above_thr is 126
C15_Thresholds ==
    Constructed =>
        /\ trig.level = calc.level
        /\ trig.below >= -127
        /\ trig.above <= 126
        /\ calc.level >= -127 => trig.below <= calc.level
        /\ calc.level <= 126 => calc.level <= trig.above
        /\ calc.level = -128 => trig.below = -127
        /\ calc.level = 127 => trig.above = 126

C15_Witness ==
    /\ Constructed
    /\ trig.state = "Fresh"
    /\ calc.level = 127
    /\ calc.hysteresis = 255
    /\ trig.above = 126
    /\ trig.below = -127

\* C16: for every level and hysteresis, the trigger built by Trigger::new
\* fires Rising from state Below on a block of the sample 127 and Falling
\* from state Above on a block of the sample -128 (so a firing sample value
\* exists in both directions), Trigger(127, 3) and Trigger(-128, 3) included
C16_ExtremesFire ==
    Constructed =>
        /\ Find([trig EXCEPT !.state = "Below"], Block(127), "Both").edge = "Rising"
        /\ Find([trig EXCEPT !.state = "Above"], Block(-128), "Both").edge = "Falling"
        /\ (call.n >= 1 /\ call.before = "Below" /\ call.data = Block(127)) =>
                (call.edge = "Rising" /\ trig.state = "Above")
        /\ (call.n >= 1 /\ call.before = "Above" /\ call.data = Block(-128)) =>
                (call.edge = "Falling" /\ trig.state = "Below")

C16_Witness ==
    /\ Constructed
    /\ calc.level = -128
    /\ calc.hysteresis = 3
    /\ call.n = 2
    /\ call.before = "Below"
    /\ call.data = Block(127)
    /\ call.edge = "Rising"

(***************************************************************************)
(* Ring cursor and ring slice operations                                   *)
(***************************************************************************)
Moved(op) == calc.op = op /\ calc.done

\* ceil(k / L)
CeilDiv(k, L) == (k + L - 1) \div L

\* C17: for every cursor c with bound L >= 1 and every offset k,
\* (c + k).index = (c.index + k) mod L on the mathematical sum, an index
\* in [0, L)
C17_AddIsModular ==
    Moved("add") =>
        /\ calc.out.index = (calc.c.index + calc.offset) % calc.c.bound
        /\ calc.out.index \in 0..(calc.c.bound - 1)
        /\ calc.out.bound = calc.c.bound

\* the sum that does not overflow the machine word is reduced as C17 says,
\* and so is every sum when the bound divides the word's modulus
C17_WithoutOverflow ==
    ( /\ Moved("add")
      /\ \/ calc.c.index + calc.offset < UsizeModulus
         \/ UsizeModulus % calc.c.bound = 0 ) =>
        calc.out.index = (calc.c.index + calc.offset) % calc.c.bound

\* C18: for every cursor c with bound L >= 1, a power of two or not, and
\* every offset k, (c - k).index = (c.index + L * ceil(k / L) - k) mod L
C18_SubIsModular ==
    Moved("sub") =>
        /\ calc.out.index =
              (calc.c.index + calc.c.bound * CeilDiv(calc.offset, calc.c.bound)
                 - calc.offset) % calc.c.bound
        /\ calc.out.bound = calc.c.bound

\* the cursor is moved back k positions when the offset does not exceed the
\* index, or when the bound divides the word's modulus
C18_WithoutBorrow ==
    ( /\ Moved("sub")
      /\ \/ calc.offset <= calc.c.index
         \/ UsizeModulus % calc.c.bound = 0 ) =>
        calc.out.index = (calc.c.index - calc.offset) % calc.c.bound

\* the bytes of the ring from position i on, n of them
RingBytes(i, n) == [t \in 1..n |-> calc.bytes[(i + t - 1) % calc.len]]

\* C19 as stated: indexing with [i, j), 0 <= i < L and 0 <= j - i <= L,
\* ranges with j > L included, returns the j - i ring bytes from i on
C19_AsStated ==
    ( /\ Moved("index")
      /\ calc.start < calc.len
      /\ calc.end - calc.start >= 0
      /\ calc.end - calc.start <= calc.len ) =>
        /\ calc.ok
        /\ calc.out = RingBytes(calc.start, calc.end - calc.start)

\* C19: indexing a RingSlice of length L with the range start..end panics
\* unless start < L and end <= L; then it returns one slice that starts at
\* ring position start: the end - start bytes up to end when end >= start,
\* and the L - start + end bytes across the seam up to end when end < start
C19_RangeAcrossSeam ==
    Moved("index") =>
        /\ calc.ok <=> (calc.start < calc.len /\ calc.end <= calc.len)
        /\ (calc.ok /\ calc.end >= calc.start) =>
               calc.out = RingBytes(calc.start, calc.end - calc.start)
        /\ (calc.ok /\ calc.end < calc.start) =>
               calc.out = RingBytes(calc.start, calc.len - calc.start + calc.end)

C19_Witness ==
    /\ Moved("index")
    /\ calc.ok
    /\ calc.end < calc.start
    /\ calc.end >= 1
    /\ calc.start < calc.len - 1
    /\ Len(calc.out) = calc.len - calc.start + calc.end
    /\ calc.out[Len(calc.out)] = calc.bytes[calc.end - 1]

\* C20: for every min_size, allocation granularity G and page size P,
\* RingSlice::new(min_size) yields a length L >= min_size that is a
\* multiple of G and at least 2 * P
C20_LengthRounded ==
    Moved("RingSlice::new") =>
        /\ calc.len >= calc.min_size
        /\ calc.len % calc.alloc = 0
        /\ calc.len >= 2 * calc.page

\* the length is at least min_size and two pages, and a multiple of the
\* granularity when the granularity divides two pages or min_size rounds
\* up to two pages or more
C20_WhenGranularityFits ==
    Moved("RingSlice::new") =>
        /\ calc.len >= calc.min_size
        /\ calc.len >= 2 * calc.page
        /\ ( \/ (2 * calc.page) % calc.alloc = 0
             \/ NextMultipleOf(calc.min_size, calc.alloc) >= 2 * calc.page ) =>
                calc.len % calc.alloc = 0

\* the faceplate channels (1..4) that params enables
EnabledChannels(params) == {k \in 1..4 : params[k].some}

\* the ADC input INn (n in 1..4) that ADC input j is to select for these
\* enabled channels; the faceplate channel CHk is wired to IN(5 - k)
ExpectedInput(chs, j) ==
    CASE Cardinality(chs) = 1 -> 5 - SetMin(chs)
      [] Cardinality(chs) = 2 ->
            IF j <= 2 THEN 5 - SetMin(chs)
            ELSE 5 - SetMin(chs \ {SetMin(chs)})
      [] OTHER -> 5 - j

\* the value of an input select register that makes its two ADC inputs
\* select INa and INb: one-hot fields at bits 1..4 and 9..12
InselValue(a, b) == 2 ^ a + 256 * 2 ^ b

\* C24: for every enable vector with at least one enabled channel, configure
\* programs (channel count, clock divisor, mux bits) as (1, 0, none) for one
\* enabled channel, (2, 1, ChannelMux0) for two and (4, 2, ChannelMux1) for
\* three or four, and the input selects so that with one enabled channel CHk
\* all four ADC inputs select IN(5-k), with two the ADC inputs 1-2 select the
\* lower-indexed enabled channel and 3-4 the higher-indexed one, and with
\* three or four the ADC inputs 1..4 select CH1..CH4
C24_ChannelModes ==
    (devCall.op = "configure" /\ devCall.result = "Ok") =>
        LET chs   == EnabledChannels(devCall.params)
            count == Cardinality(chs)
            mode  == CASE count = 1 -> <<1, 0, {}>>
                       [] count = 2 -> <<2, 1, {"ChannelMux0"}>>
                       [] OTHER -> <<4, 2, {"ChannelMux1"}>>
        IN  /\ count >= 1
            /\ AdcWriteAt(20, "CHNUM_CLKDIV")
            /\ devLog[20].value = mode[2] * 256 + mode[1]
            /\ devLog[24].op = "control"
            /\ devLog[24].value \cap {"ChannelMux0", "ChannelMux1"} = mode[3]
            /\ ctl \cap {"ChannelMux0", "ChannelMux1"} = mode[3]
            /\ AdcWriteAt(22, "INSEL12")
            /\ devLog[22].value =
                  InselValue(ExpectedInput(chs, 1), ExpectedInput(chs, 2))
            /\ AdcWriteAt(23, "INSEL34")
            /\ devLog[23].value =
                  InselValue(ExpectedInput(chs, 3), ExpectedInput(chs, 4))

\* configure has succeeded with channels 2 and 4 enabled on a device that
\* was left in four-channel mode
C24_Witness ==
    /\ devCall.op = "configure"
    /\ devCall.result = "Ok"
    /\ EnabledChannels(devCall.params) = {2, 4}
    /\ "ChannelMux1" \in devCall.before
    /\ ctl \cap {"ChannelMux0", "ChannelMux1"} = {"ChannelMux0"}

(***************************************************************************)
(* Properties of sequences of device calls                                 *)
(***************************************************************************)
\* the calls i..(i + Len(ops) - 1) of the sequence are these operations
CallsAt(i, ops) ==
    /\ i + Len(ops) - 1 <= Len(devCall.hist)
    /\ \A k \in 1..Len(ops) : devCall.hist[i + k - 1].op = ops[k]

SameRegisterState(a, b) == a.ctl = b.ctl /\ a.regs = b.regs

\* C25: for every DeviceParameters p with at least one enabled channel and
\* every prior device state, the register state (Control and the last value
\* written to every PGA, digipot, trim-DAC and ADC register) after
\* configure(p); configure(p) equals the register state after one
\* configure(p)
C25_ConfigureTwice ==
    \A i \in 1..Len(devCall.hist) :
        CallsAt(i, <<"configure", "configure">>) =>
            /\ devCall.hist[i].params = devCall.hist[i + 1].params
            /\ SameRegisterState(devCall.hist[i], devCall.hist[i + 1])

\* configure(p); configure(p) after a shutdown, p with a disabled channel
\* and a channel with other than default settings
C25_Witness ==
    /\ CallsAt(1, <<"shutdown", "configure", "configure">>)
    /\ devCall.p[1] = SomeChannel(ChannelAlt)
    /\ ~devCall.p[3].some
    /\ devCall.hist[1].ctl # devCall.hist[2].ctl

\* C26: from the same initial device state, the register state after
\* startup(); shutdown(); startup() equals the register state after a
\* single startup()
C26_StartupAgain ==
    \A i \in 1..Len(devCall.hist) :
        CallsAt(i, <<"startup", "shutdown", "startup">>) =>
            SameRegisterState(devCall.hist[i], devCall.hist[i + 2])

\* startup(); shutdown(); startup() on a device left with other settings
C26_Witness ==
    /\ CallsAt(1, <<"startup", "shutdown", "startup">>)
    /\ devCall.hist[1].ctl # TerminatedControl
    /\ devCall.hist[2].ctl = {}
    /\ Cardinality(devCall.regs) > 40

\* C27: shutdown() first clears DatamoverHaltN, then clears FpgaAcqResetN,
\* and last writes 0 to the whole Control register; after a successful
\* shutdown from any state every Control bit, both rail enables included,
\* is clear
C27_ShutdownOrder ==
    devCall.op = "shutdown" =>
        /\ Len(devLog) <= 3
        /\ Len(devLog) >= 1 => ControlWriteAt(1, {"DatamoverHaltN"}, {})
        /\ Len(devLog) >= 2 => ControlWriteAt(2, {"FpgaAcqResetN"}, {})
        /\ Len(devLog) >= 3 => devLog[3] = [op |-> "control", value |-> {}]
        /\ devCall.result = "Ok" => Len(devLog) = 3 /\ ctl = {}
        /\ devCall.result # "Panic"

\* a shutdown has succeeded on a device with the rails, the data mover and
\* channel settings on
C27_Witness ==
    /\ devCall.op = "shutdown"
    /\ devCall.result = "Ok"
    /\ {"Rail3V3Enabled", "Rail5VEnabled", "DatamoverHaltN", "FpgaAcqResetN",
        "Ch1Termination"} \subseteq devCall.before
    /\ ctl = {}

(***************************************************************************)
(* Properties of the FIFO transactions and of the failure flags            *)
(***************************************************************************)
\* the positions in the log of the register accesses of packet k
AccessesOf(k) == {j \in 1..Len(fifo.log) : fifo.log[j].pkt = k}

\* the access that write_fifo makes at step t (from 0) of the packet
\* `packet`, when it is no ISR read
ExpectedWrite(k, packet, t) ==
    IF t < Len(packet)
    THEN [pkt |-> k, op |-> "write", reg |-> "TDFD", value |-> packet[t + 1]]
    ELSE IF t = Len(packet)
    THEN [pkt |-> k, op |-> "write", reg |-> "TLR", value |-> 4 * Len(packet)]
    ELSE [pkt |-> k, op |-> "write", reg |-> "ISR", value |-> {"TC"}]

IsIsrRead(a) == a.op = "read" /\ a.reg = "ISR"

\* C23: every SPI/I2C transaction is one FIFO packet: one write to the
\* transmit data register per packet byte, in byte order, then one write of
\* 4 x (number of packet bytes) to the transmit length register, then a
\* write of TC to the ISR, then ISR reads until one shows TC; write_fifo
\* returns success only after an ISR read with TC set, and the register
\* accesses of two packets never interleave
C23_PacketOrder ==
    \A k \in 1..fifo.k :
        LET packet == PacketOf(fifo.queue[k])
            idx    == AccessesOf(k)
            first  == SetMin(idx)
            last   == first + Cardinality(idx) - 1
        IN  /\ idx # {} =>
                /\ idx = first..last
                /\ \A j \in idx :
                      IF j - first <= Len(packet) + 1
                      THEN fifo.log[j] = ExpectedWrite(k, packet, j - first)
                      ELSE /\ IsIsrRead(fifo.log[j])
                           /\ j < last => fifo.log[j].value = {}
                /\ \A j \in 1..Len(fifo.log) :
                      (j < first => fifo.log[j].pkt < k)
                      /\ (j > last => fifo.log[j].pkt > k)
            /\ (k <= Len(fifo.results) /\ fifo.results[k] = "Ok") =>
                /\ Cardinality(idx) >= Len(packet) + 3
                /\ IsIsrRead(fifo.log[last])
                /\ "TC" \in fifo.log[last].value

\* two transactions on different buses, both transmitted, the second after
\* an ISR read that did not show TC yet
C23_Witness ==
    /\ fifo.results = <<"Ok", "Ok">>
    /\ fifo.queue[1].bus = "i2c"
    /\ fifo.queue[2].bus = "spi"
    /\ fifo.pc = "idle"
    /\ Cardinality(AccessesOf(2)) = Len(PacketOf(fifo.queue[2])) + 4

\* an ISR value with TPOE set, once read, is fatal: write_fifo has panicked
\* and the packet has no result
TpoeIsFatal ==
    \A j \in 1..Len(fifo.log) :
        (IsIsrRead(fifo.log[j]) /\ "TPOE" \in fifo.log[j].value) =>
            /\ fifo.pc = "panicked"
            /\ j = Len(fifo.log)
            /\ Len(fifo.results) < fifo.log[j].pkt

\* a read call that reads Status with a failure flag set ends there, in a
\* panic (or in the Err of the register read), with no read_dma and nothing
\* returned, and nothing is read after a panic
StatusFlagsAreFatal ==
    /\ (strm.pc = "loop" /\ dev.fault /\ strm' # strm) =>
            /\ strm'.pc \in {"panicked", "idle"}
            /\ strm'.pc = "idle" => strmOut'.errors = strmOut.errors + 1
            /\ strmOut'.bytes = strmOut.bytes
    /\ strm.pc = "panicked" => (strm' = strm /\ strmOut'.bytes = strmOut.bytes)

\* C22: hardware failure flags are fatal and never ignored: once
\* Streamer::read has read a Status value with FifoOverflow or DatamoverError
\* set, the call issues no read_dma and returns no data (it panics); once
\* write_fifo has read an ISR value with TPOE set, it never returns success
\* (it panics)
C22_FlagsAreFatal == [][StatusFlagsAreFatal]_vars /\ []TpoeIsFatal

\* a read call panicked on the flags in a later turn, after it had read a
\* chunk that it now never returns
C22_Witness ==
    /\ strm.pc = "panicked"
    /\ dev.fault
    /\ strm.written > 0
    /\ strmOut.bytes = <<>>

\* C36: write_fifo terminates for every packet that the hardware transmits:
\* if the FIFO sets TC once after the transmit-length write, the polling
\* loop ends, whether the hardware sets TC before or after the host's write
\* that clears TC
C36_WriteFifoTerminates == (fifo.pc = "isr") ~> (fifo.pc = "idle")

\* the loop ends when the hardware sets TC after the host's clearing write
C36_EndsWhenTcComesLater ==
    (fifo.pc = "poll" /\ fifo.pending) ~> (fifo.pc = "idle")

(***************************************************************************)
(* Properties of the error conversions                                     *)
(***************************************************************************)
\* C33: a transport error raised by read_user or read_dma inside
\* Streamer::read reaches the caller of the sampler unchanged: it is still
\* the XDMA transport error kind and carries the same OS error; converting a
\* crate Error to std::io::Error and back returns the variant it started
\* from
C33_ErrorUnchanged ==
    (calc.op = "error" /\ calc.stage = "sampler") =>
        /\ calc.returned.variant = calc.error.variant
        /\ calc.error.variant = "Xdma" => calc.returned = calc.error

\* what does reach the caller of a transport error: the same OS error,
\* boxed in Error::Other
C33_OsErrorKept ==
    (calc.op = "error" /\ calc.stage = "sampler"
       /\ calc.error.variant = "Xdma") =>
        calc.returned = ErrorOther(calc.error.inner)

(***************************************************************************)
(* Properties of the voltage conversions                                   *)
(***************************************************************************)
\* C34: for every enabled channel ch of every DeviceParameters value and
\* every code c in [-128, 127], volts_to_code(ch, code_to_volts(ch, c)) = c
C34_RoundTrip ==
    (calc.op = "volts" /\ calc.stage = "back") => calc.back = calc.code

\* the round trip is never off by more than one code, and never away from 0
C34_OffByOneTowardZero ==
    (calc.op = "volts" /\ calc.stage = "back") =>
        \/ calc.back = calc.code
        \/ calc.code > 0 /\ calc.back = calc.code - 1
        \/ calc.code < 0 /\ calc.back = calc.code + 1

(***************************************************************************)
(* Properties of the capture iteration                                     *)
(***************************************************************************)
\* the SAMPLE_COUNT bytes from the capture cursor are the stream bytes s,
\* s + 1, ... read in this iteration, and s is the sample that rose above
\* the level
CapturedFrom(s) ==
    LET bytes == RingRead(calc.buffer, calc.capture.cursor, calc.capture.count)
    IN  /\ calc.capture.count = SAMPLE_COUNT
        /\ s + SAMPLE_COUNT - 1 <= calc.read
        /\ \A j \in 1..SAMPLE_COUNT : bytes[j] = CastI8(SourceByte(s + j - 1))
        /\ CastI8(SourceByte(s)) > calc.level
        /\ CastI8(SourceByte(s - 1)) <= calc.level

\* C32: whenever the sampler sets a capture in a trigger mode, the capture
\* cursor is on the sample that caused the edge and the SAMPLE_COUNT bytes
\* from it are consecutive bytes of the source stream read during that
\* iteration, for every reader that keeps the byte-source contract, one that
\* returns fewer bytes than requested or none included
C32_CaptureIsFresh ==
    (calc.op = "capture" /\ calc.stage = "captured") =>
        \E s \in (calc.first + 2)..calc.read : CapturedFrom(s)

\* the same when the second refill, if there was one, gave all the bytes it
\* was asked for
C32_FreshAfterFullRefill ==
    (calc.op = "capture" /\ calc.stage = "captured" /\ ~calc.short) =>
        \E s \in (calc.first + 2)..calc.read : CapturedFrom(s)

\* a capture accepted after a second refill that gave all its bytes
C32_RefilledCapture ==
    /\ calc.op = "capture"
    /\ calc.stage = "captured"
    /\ ~calc.short
    /\ calc.available = SAMPLE_COUNT
    /\ calc.iteration = 2

====
